---- MODULE Spec2Model ----
(***************************************************************************)
(* Rising Topics data pipeline (scripts/build_data.py, TrendsDataPipeline). *)
(*                                                                         *)
(* Strings are sequences of one-character strings, so that lower(),        *)
(* strip(), replace() and split() act on characters as the Python code     *)
(* does.  Scores handed to _deduplicate_topics and                         *)
(* _apply_final_filtering_and_capping are integers (any order-preserving   *)
(* unit of the float scores); quotients are kept exact by comparing        *)
(* cross-multiplied numerators.                                            *)
(***************************************************************************)
EXTENDS Integers, Sequences, FiniteSets, TLC

VARIABLES
    \* _deduplicate_topics, one call after another
    d_input,        \* the argument of the first call
    d_topics,       \* the argument of the call in progress
    topics_sorted,  \* line 358
    d_idx,          \* position of the for loop of line 364 in topics_sorted
    unique_topics,  \* line 360
    seen_terms,     \* line 361
    d_replaced,     \* whether the branch of lines 403-407 has been taken
    d_results,      \* the values returned so far, one per call
    d_pc,
    \* _apply_final_filtering_and_capping
    f_topics,       \* the argument
    f_result,       \* the returned list
    f_pc,
    \* run()
    seeds_data,     \* self.seeds_data['categories'], in iteration order
    source,         \* what the signal source answers for each term
    all_topics,     \* line 853
    cat_idx,        \* position of the for loop of line 858
    term_idx,       \* position of the for loop of line 538
    category_topics,\* 'topics' of _process_category, line 536
    processed,      \* positions of the categories the loop of line 858 has taken up
    terms_taken,    \* (category, term) positions the loop of line 538 has taken up
    passed_filter,  \* (category, term) positions that passed the quality filter
    created,        \* the Topics built at lines 557-573, each with its position
    errors,         \* error_tracker.errors: the error types, in order
    stages,         \* the stages of run() executed so far, in order
    saved,          \* the topic lists _save_data has been handed, in order
    run_result,     \* what run() returned: "none" until it returns
    r_pc,
    \* one call of a function of the pipeline on its own
    call_fn,        \* the function called
    call_args,      \* its arguments
    call_result,    \* what it returned: "none" until it returns
    call_step,      \* the number of the next check of the function, 0 for none
    call_pc,        \* "idle", "call", "returned"
    \* _save_data and _cleanup_archives on the output directory
    today,          \* datetime.now().date(), as a day number
    hms,            \* datetime.now() within the day, in seconds
    latest_file,    \* what latest.json holds: "none" until it is written
    archive_dir,    \* the files of the archive directory, each with name,
                    \* content and the day it was last written
    s_topics,       \* the list handed to the call of _save_data in progress,
                    \* as the caller sees it after the call
    s_before,       \* that list as it was handed in
    archives_written, \* the archive name each call of _save_data wrote, in order
    s_pc,
    \* _rate_limit, called by one signal-source call after another
    now,            \* time.time(), in seconds
    last_request_time,
    sleep_time,     \* line 193
    returns,        \* what each call of _rate_limit found and left: the
                    \* last_request_time before it and the one it recorded
    t_caller,       \* the signal-source call in progress
    t_pc

dvars == <<d_input, d_topics, topics_sorted, d_idx, unique_topics, seen_terms,
           d_replaced, d_results, d_pc>>
fvars == <<f_topics, f_result, f_pc>>
rvars == <<seeds_data, source, all_topics, cat_idx, term_idx, category_topics,
           processed, terms_taken, passed_filter, created, errors, stages, saved, run_result, r_pc>>
cvars == <<call_fn, call_args, call_result, call_step, call_pc>>
svars == <<today, hms, latest_file, archive_dir, s_topics, s_before,
           archives_written, s_pc>>
tvars == <<now, last_request_time, sleep_time, returns, t_caller, t_pc>>
vars == <<dvars, fvars, rvars, cvars, svars, tvars>>

----------------------------------------------------------------------------
(* Sequences and characters *)

SeqToSet(s) == {s[i] : i \in 1..Len(s)}

Max2(a, b) == IF a >= b THEN a ELSE b

Min2(a, b) == IF a <= b THEN a ELSE b

\* The characters the terms of the model are written in, in code-point order.
AsciiOrder ==
    <<" ", "-", ".", "0", "1", "2", "3", "4", "5", "6", "7", "8", "9",
      "A", "B", "C", "D", "E", "F", "G", "H", "I", "J", "K", "L", "M",
      "N", "O", "P", "Q", "R", "S", "T", "U", "V", "W", "X", "Y", "Z",
      "_",
      "a", "b", "c", "d", "e", "f", "g", "h", "i", "j", "k", "l", "m",
      "n", "o", "p", "q", "r", "s", "t", "u", "v", "w", "x", "y", "z">>

Ord(c) == CHOOSE i \in 1..Len(AsciiOrder) : AsciiOrder[i] = c

IsUpper(c) == Ord("A") <= Ord(c) /\ Ord(c) <= Ord("Z")

IsDigit(c) == Ord("0") <= Ord(c) /\ Ord(c) <= Ord("9")

IsSpace(c) == c = " "

\* str.lower(), one character
LowerChar(c) == IF IsUpper(c) THEN AsciiOrder[Ord(c) - Ord("A") + Ord("a")] ELSE c

\* str.lower()
Lower(s) == [i \in 1..Len(s) |-> LowerChar(s[i])]

RECURSIVE LStrip(_)
LStrip(s) == IF s # <<>> /\ IsSpace(Head(s)) THEN LStrip(Tail(s)) ELSE s

RECURSIVE RStrip(_)
RStrip(s) ==
    IF s # <<>> /\ IsSpace(s[Len(s)]) THEN RStrip(SubSeq(s, 1, Len(s) - 1)) ELSE s

\* str.strip()
Strip(s) == RStrip(LStrip(s))

\* str.replace(c, '')
RemoveChar(s, c) == SelectSeq(s, LAMBDA x : x # c)

\* str.split(): the maximal runs of non-whitespace characters, in order
RECURSIVE SplitFrom(_, _, _)
SplitFrom(s, i, cur) ==
    IF i > Len(s) THEN (IF cur = <<>> THEN <<>> ELSE <<cur>>)
    ELSE IF IsSpace(s[i])
         THEN (IF cur = <<>> THEN <<>> ELSE <<cur>>) \o SplitFrom(s, i + 1, <<>>)
         ELSE SplitFrom(s, i + 1, Append(cur, s[i]))

Split(s) == SplitFrom(s, 1, <<>>)

\* ' '.join(tokens)
RECURSIVE JoinSpace(_)
JoinSpace(toks) ==
    IF toks = <<>> THEN <<>>
    ELSE IF Len(toks) = 1 THEN toks[1]
    ELSE toks[1] \o <<" ">> \o JoinSpace(Tail(toks))

\* the normalization with line 324 left out: punctuation is kept
NormalizeTermKeepPunct(term) == JoinSpace(Split(Strip(Lower(term))))

\* _normalize_term_for_dedup
NormalizeTermForDedup(term) ==
    LET lowered == Strip(Lower(term))
        nopunct == RemoveChar(RemoveChar(RemoveChar(lowered, "-"), "_"), ".")
    IN  JoinSpace(Split(nopunct))

\* the threshold with lines 337-338 left out: no lower threshold for short terms
SimilarityThresholdNoShortRule(term1, term2) ==
    IF \E i \in 1..Len(term1 \o term2) : IsDigit((term1 \o term2)[i]) THEN 80
    ELSE IF Len(term1) > 20 \/ Len(term2) > 20 THEN 90
    ELSE 85

\* _calculate_similarity_threshold
CalculateSimilarityThreshold(term1, term2) ==
    IF Len(term1) <= 3 \/ Len(term2) <= 3 THEN 75
    ELSE IF \E i \in 1..Len(term1 \o term2) : IsDigit((term1 \o term2)[i]) THEN 80
    ELSE IF Len(term1) > 20 \/ Len(term2) > 20 THEN 90
    ELSE 85

----------------------------------------------------------------------------
(* rapidfuzz.fuzz, as called at lines 383-386.  A similarity is the exact   *)
(* quotient n/d, a number in 0..100, kept as the record [n, d] with d > 0.  *)

Sim(n, d) == [n |-> n, d |-> d]

SimGt(a, b) == a.n * b.d > b.n * a.d

SimMax(a, b) == IF SimGt(b, a) THEN b ELSE a

\* similarity > threshold, threshold an integer
SimExceeds(a, threshold) == a.n > threshold * a.d

\* One row of the longest-common-subsequence table: the row of character c
\* of s against t, from the row before it, grown one cell at a time.
RECURSIVE LCSRow(_, _, _, _)
LCSRow(c, t, prev, row) ==
    IF Len(row) >= Len(t) THEN row
    ELSE LET j == Len(row) + 1
             left == IF j = 1 THEN 0 ELSE row[j - 1]
             diag == IF j = 1 THEN 0 ELSE prev[j - 1]
             cell == IF c = t[j] THEN diag + 1 ELSE Max2(prev[j], left)
         IN  LCSRow(c, t, prev, Append(row, cell))

RECURSIVE LCSRows(_, _, _, _)
LCSRows(s, t, i, prev) ==
    IF i > Len(s) \/ Len(prev) = 0 THEN prev
    ELSE LCSRows(s, t, i + 1, LCSRow(s[i], t, prev, <<>>))

\* length of the longest common subsequence of s and t
LCS(s, t) ==
    IF s = <<>> \/ t = <<>> THEN 0
    ELSE LCSRows(s, t, 1, [j \in 1..Len(t) |-> 0])[Len(t)]

\* 100 - 100 * dist / lensum (100 when lensum = 0)
NormDistance(dist, lensum) ==
    IF lensum = 0 THEN Sim(100, 1) ELSE Sim(100 * (lensum - dist), lensum)

\* Indel distance: len1 + len2 - 2 * LCS
IndelDistance(s, t) == Len(s) + Len(t) - 2 * LCS(s, t)

\* fuzz.ratio
FuzzRatio(s, t) == NormDistance(IndelDistance(s, t), Len(s) + Len(t))

\* The windows of the longer string s2 that _partial_ratio_impl aligns the
\* shorter string s1 with: prefixes shorter than s1, every window of the
\* length of s1, suffixes no longer than s1; a window whose boundary
\* character does not occur in s1 is skipped.
PartialWindows(s1, s2) ==
    LET len1 == Len(s1)
        len2 == Len(s2)
        chars == SeqToSet(s1)
    IN  {SubSeq(s2, 1, i) : i \in {k \in 1..(len1 - 1) : s2[k] \in chars}}
        \cup {SubSeq(s2, i + 1, i + len1) :
                 i \in {k \in 0..(len2 - len1 - 1) : s2[k + len1] \in chars}}
        \cup {SubSeq(s2, i + 1, len2) :
                 i \in {k \in (len2 - len1)..(len2 - 1) : s2[k + 1] \in chars}}

\* _partial_ratio_impl: the best fuzz.ratio of s1 with a window of s2, 0
\* when there is no window
PartialRatioImpl(s1, s2) ==
    LET ratios == {FuzzRatio(s1, w) : w \in PartialWindows(s1, s2)}
    IN  IF ratios = {} THEN Sim(0, 1)
        ELSE CHOOSE r \in ratios : \A q \in ratios : ~SimGt(q, r)

\* fuzz.partial_ratio
FuzzPartialRatio(s, t) ==
    IF s = <<>> /\ t = <<>> THEN Sim(100, 1)
    ELSE LET shorter == IF Len(s) <= Len(t) THEN s ELSE t
             longer == IF Len(s) <= Len(t) THEN t ELSE s
             res == PartialRatioImpl(shorter, longer)
         IN  IF res.n # 100 * res.d /\ Len(s) = Len(t)
             THEN SimMax(res, PartialRatioImpl(longer, shorter))
             ELSE res

\* a < b in Python's string order (by code point, a proper prefix first)
RECURSIVE StrLess(_, _)
StrLess(a, b) ==
    IF b = <<>> THEN FALSE
    ELSE IF a = <<>> THEN TRUE
    ELSE IF Head(a) = Head(b) THEN StrLess(Tail(a), Tail(b))
    ELSE Ord(Head(a)) < Ord(Head(b))

RECURSIVE InsertToken(_, _)
InsertToken(sorted, tok) ==
    IF sorted = <<>> THEN <<tok>>
    ELSE IF StrLess(tok, Head(sorted)) THEN <<tok>> \o sorted
    ELSE <<Head(sorted)>> \o InsertToken(Tail(sorted), tok)

\* sorted(tokens), tokens a list
RECURSIVE SortTokens(_)
SortTokens(toks) ==
    IF toks = <<>> THEN <<>>
    ELSE InsertToken(SortTokens(SubSeq(toks, 1, Len(toks) - 1)), toks[Len(toks)])

\* sorted(tokens), tokens a set
RECURSIVE SortTokenSet(_)
SortTokenSet(S) ==
    IF S = {} THEN <<>>
    ELSE LET least == CHOOSE x \in S : \A y \in S \ {x} : StrLess(x, y)
         IN  <<least>> \o SortTokenSet(S \ {least})

\* fuzz.token_sort_ratio
FuzzTokenSortRatio(s, t) ==
    FuzzRatio(JoinSpace(SortTokens(Split(s))), JoinSpace(SortTokens(Split(t))))

\* fuzz.token_set_ratio
FuzzTokenSetRatio(s, t) ==
    LET tokens_a == SeqToSet(Split(s))
        tokens_b == SeqToSet(Split(t))
        intersect == tokens_a \cap tokens_b
        diff_ab == tokens_a \ tokens_b
        diff_ba == tokens_b \ tokens_a
        diff_ab_joined == JoinSpace(SortTokenSet(diff_ab))
        diff_ba_joined == JoinSpace(SortTokenSet(diff_ba))
        ab_len == Len(diff_ab_joined)
        ba_len == Len(diff_ba_joined)
        sect_len == Len(JoinSpace(SortTokenSet(intersect)))
        sep == IF sect_len # 0 THEN 1 ELSE 0
        sect_ab_len == sect_len + sep + ab_len
        sect_ba_len == sect_len + sep + ba_len
        result == NormDistance(IndelDistance(diff_ab_joined, diff_ba_joined),
                               sect_ab_len + sect_ba_len)
        sect_ab_ratio == NormDistance(sep + ab_len, sect_len + sect_ab_len)
        sect_ba_ratio == NormDistance(sep + ba_len, sect_len + sect_ba_len)
    IN  IF tokens_a = {} \/ tokens_b = {} THEN Sim(0, 1)
        ELSE IF intersect # {} /\ (diff_ab = {} \/ diff_ba = {}) THEN Sim(100, 1)
        ELSE IF sect_len = 0 THEN result
        ELSE SimMax(result, SimMax(sect_ab_ratio, sect_ba_ratio))

\* line 389: the maximum of the four measures
MaxSimilarity(s, t) ==
    SimMax(SimMax(FuzzRatio(s, t), FuzzPartialRatio(s, t)),
           SimMax(FuzzTokenSortRatio(s, t), FuzzTokenSetRatio(s, t)))

----------------------------------------------------------------------------
(* The terms of the model *)

T_ChatGPT == <<"C", "h", "a", "t", "G", "P", "T">>

T_ChatHyphenGPT == <<"C", "h", "a", "t", "-", "G", "P", "T">>

T_ChatUnderscoreGPT == <<" ", "C", "h", "a", "t", "_", "G", "P", "T">>

T_AI == <<"A", ".", "I", ".">>

T_OpenAI == <<"O", "p", "e", "n", "A", "I">>

T_AItools == <<"A", "I", " ", " ", "t", "o", "o", "l", "s">>

Pool == {T_ChatGPT, T_ChatHyphenGPT, T_ChatUnderscoreGPT, T_AI, T_OpenAI, T_AItools}

\* _normalize_term_for_dedup on the terms of the model, computed once: the
\* pairs <<term, normalized term>>
NormTable == {<<t, NormalizeTermForDedup(t)>> : t \in Pool}

Normalized(term) == (CHOOSE p \in NormTable : p[1] = term)[2]

\* lines 383-392 for every pair of normalized terms of the model, computed
\* once: the maximum similarity and the dynamic threshold
PairTable ==
    {[term1 |-> p[2], term2 |-> q[2],
      max_similarity |-> MaxSimilarity(p[2], q[2]),
      threshold |-> CalculateSimilarityThreshold(p[2], q[2])] :
        p \in NormTable, q \in NormTable}

PairEntry(term1, term2) ==
    CHOOSE e \in PairTable : e.term1 = term1 /\ e.term2 = term2

\* line 395 for a pair of raw terms
IsFuzzyDuplicate(term, existing_term) ==
    LET e == PairEntry(Normalized(term), Normalized(existing_term))
    IN  SimExceeds(e.max_similarity, e.threshold)

----------------------------------------------------------------------------
(* _deduplicate_topics *)

\* sorted(topics, key=score): ascending, a plausible slip for reverse=True
RECURSIVE InsertByScoreAsc(_, _)
InsertByScoreAsc(sorted, topic) ==
    IF sorted = <<>> THEN <<topic>>
    ELSE IF Head(sorted).score > topic.score THEN <<topic>> \o sorted
    ELSE <<Head(sorted)>> \o InsertByScoreAsc(Tail(sorted), topic)

\* Insertion that keeps the list descending by score and puts the topic
\* after the topics of equal score: Python's sort is stable, and with
\* reverse=True equal elements keep their original order.
RECURSIVE InsertByScoreDesc(_, _)
InsertByScoreDesc(sorted, topic) ==
    IF sorted = <<>> THEN <<topic>>
    ELSE IF Head(sorted).score < topic.score THEN <<topic>> \o sorted
    ELSE <<Head(sorted)>> \o InsertByScoreDesc(Tail(sorted), topic)

RECURSIVE SortByScoreAsc(_)
SortByScoreAsc(topics) ==
    IF topics = <<>> THEN <<>>
    ELSE InsertByScoreAsc(SortByScoreAsc(SubSeq(topics, 1, Len(topics) - 1)),
                          topics[Len(topics)])

\* the list as it was handed in: line 358 without its effect
KeepInputOrder(topics) == topics

\* sorted(topics, key=lambda x: x['score'], reverse=True)
RECURSIVE SortByScoreDesc(_)
SortByScoreDesc(topics) ==
    IF topics = <<>> THEN <<>>
    ELSE InsertByScoreDesc(SortByScoreDesc(SubSeq(topics, 1, Len(topics) - 1)),
                           topics[Len(topics)])

\* list.remove(x): the list without the first element equal to x
RECURSIVE RemoveFirst(_, _)
RemoveFirst(list, x) ==
    IF list = <<>> THEN <<>>
    ELSE IF Head(list) = x THEN Tail(list)
    ELSE <<Head(list)>> \o RemoveFirst(Tail(list), x)

\* lines 391-399 with the condition of line 395 never true
ScanCompareNoHit(acc, k, e) == acc

\* lines 391-399 for one existing topic, at position k of unique: e is the
\* similarity and threshold of the pair
ScanCompare(acc, k, e) ==
    LET hit == SimExceeds(e.max_similarity, e.threshold)
        better == hit /\ SimGt(e.max_similarity, acc.best_similarity)
    IN  [is_duplicate |-> acc.is_duplicate \/ hit,
         best_match |-> IF better THEN k ELSE acc.best_match,
         best_similarity |-> IF better THEN e.max_similarity
                             ELSE acc.best_similarity]

\* The for loop of lines 378-399 from position k of unique: acc holds
\* is_duplicate, best_match (its position in unique, 0 for None) and
\* best_similarity.
RECURSIVE ScanExisting(_, _, _, _)
ScanExisting(normalized_term, unique, k, acc) ==
    IF k > Len(unique) THEN acc
    ELSE ScanExisting(normalized_term, unique, k + 1,
             ScanCompare(acc, k,
                 PairEntry(normalized_term, Normalized(unique[k].term))))

\* The iteration with the append of line 413 reached on every path: the
\* topic is kept whether or not it duplicates a kept one.
DedupIterationAppendAlways(st, topic) ==
    [unique |-> Append(st.unique, topic),
     seen |-> st.seen \cup {Normalized(topic.term)},
     replaced |-> st.replaced]

\* lines 369-414 once the term is normalized and the kept topics scanned
DedupDecide(st, topic, normalized_term, scan) ==
    IF normalized_term \in st.seen THEN st
    ELSE IF scan.is_duplicate /\ scan.best_match # 0
    THEN IF topic.score > st.unique[scan.best_match].score
         THEN [unique |-> Append(RemoveFirst(st.unique,
                                             st.unique[scan.best_match]), topic),
               seen |-> st.seen,
               replaced |-> TRUE]
         ELSE st
    ELSE [unique |-> Append(st.unique, topic),
          seen |-> st.seen \cup {normalized_term},
          replaced |-> st.replaced]

\* One iteration of the for loop of line 364 (lines 365-414) on the state
\* st = [unique |-> unique_topics, seen |-> seen_terms, replaced |-> whether
\* lines 405-406 have run].
DedupIteration(st, topic) ==
    DedupDecide(st, topic, Normalized(topic.term),
        ScanExisting(Normalized(topic.term), st.unique, 1,
            [is_duplicate |-> FALSE, best_match |-> 0,
             best_similarity |-> Sim(0, 1)]))

RECURSIVE DedupLoop(_, _, _)
DedupLoop(sorted, i, st) ==
    IF i > Len(sorted) THEN st
    ELSE DedupLoop(sorted, i + 1, DedupIteration(st, sorted[i]))

\* _deduplicate_topics, the value returned
DeduplicateTopics(topics) ==
    IF topics = <<>> THEN topics
    ELSE DedupLoop(SortByScoreDesc(topics), 1,
                   [unique |-> <<>>, seen |-> {}, replaced |-> FALSE]).unique

----------------------------------------------------------------------------
(* _apply_final_filtering_and_capping *)

max_topics == 150

Scores(topics) == [i \in 1..Len(topics) |-> topics[i].score]

\* the element of rank k (0-based) of the scores in ascending order
KthSmallest(scores, k) ==
    CHOOSE v \in SeqToSet(scores) :
        /\ Cardinality({i \in 1..Len(scores) : scores[i] < v}) <= k
        /\ k < Cardinality({i \in 1..Len(scores) : scores[i] <= v})

\* 10 * np.percentile(scores, 10), linear interpolation: with
\* 0.1 * (n - 1) = lo + r / 10 the percentile is
\* a[lo] + (r / 10) * (a[lo + 1] - a[lo]) over the ascending scores a.
Percentile10Times10(scores) ==
    LET n == Len(scores)
        lo == (n - 1) \div 10
        r == (n - 1) % 10
        a_lo == KthSmallest(scores, lo)
        a_hi == IF r = 0 THEN a_lo ELSE KthSmallest(scores, lo + 1)
    IN  10 * a_lo + r * (a_hi - a_lo)

\* the filter with the 150 cap of lines 497-498 left out
FinalFilteringWithoutCap(topics) ==
    IF topics = <<>> THEN topics
    ELSE LET positive_score_topics == SelectSeq(topics, LAMBDA t : t.score > 0)
         IN  IF positive_score_topics # <<>>
             THEN LET thr == Percentile10Times10(Scores(positive_score_topics))
                  IN  SelectSeq(positive_score_topics, LAMBDA t : 10 * t.score >= thr)
             ELSE positive_score_topics

\* the filter with line 479 keeping score >= 0
FinalFilteringKeepZero(topics) ==
    IF topics = <<>> THEN topics
    ELSE LET positive_score_topics == SelectSeq(topics, LAMBDA t : t.score >= 0)
             quality_topics ==
                 IF positive_score_topics # <<>>
                 THEN LET thr == Percentile10Times10(Scores(positive_score_topics))
                      IN  SelectSeq(positive_score_topics,
                                    LAMBDA t : 10 * t.score >= thr)
                 ELSE positive_score_topics
         IN  IF Len(quality_topics) > max_topics
             THEN SubSeq(quality_topics, 1, max_topics)
             ELSE quality_topics

\* the filter with the percentile of line 487 taken over the scores of all
\* the topics handed in, not of the positive ones
FinalFilteringPercentileOverAll(topics) ==
    IF topics = <<>> THEN topics
    ELSE LET positive_score_topics == SelectSeq(topics, LAMBDA t : t.score > 0)
             quality_topics ==
                 IF positive_score_topics # <<>>
                 THEN LET thr == Percentile10Times10(Scores(topics))
                      IN  SelectSeq(positive_score_topics,
                                    LAMBDA t : 10 * t.score >= thr)
                 ELSE positive_score_topics
         IN  IF Len(quality_topics) > max_topics
             THEN SubSeq(quality_topics, 1, max_topics)
             ELSE quality_topics

\* _apply_final_filtering_and_capping, the value returned (lines 472-502;
\* lines 504-529 only log)
ApplyFinalFilteringAndCapping(topics) ==
    IF topics = <<>> THEN topics
    ELSE LET positive_score_topics == SelectSeq(topics, LAMBDA t : t.score > 0)
             quality_topics ==
                 IF positive_score_topics # <<>>
                 THEN LET thr == Percentile10Times10(Scores(positive_score_topics))
                      IN  SelectSeq(positive_score_topics,
                                    LAMBDA t : 10 * t.score >= thr)
                 ELSE positive_score_topics
         IN  IF Len(quality_topics) > max_topics
             THEN SubSeq(quality_topics, 1, max_topics)
             ELSE quality_topics

----------------------------------------------------------------------------
(* Sparklines: _calculate_score and _passes_quality_filters.                *)
(* slope is kept as slope84 = 84 * slope, an integer: over x = 0..7 the     *)
(* least-squares slope is sum((2x - 7) * y) / 84.  percent_change is the    *)
(* quotient [n, d]; volatility is kept by its square, the quotient [n, d].  *)

RECURSIVE SumSeq(_)
SumSeq(s) == IF s = <<>> THEN 0 ELSE Head(s) + SumSeq(Tail(s))

Abs(x) == IF x < 0 THEN -x ELSE x

\* sparkline[-k:]
LastK(s, k) == IF Len(s) <= k THEN s ELSE SubSeq(s, Len(s) - k + 1, Len(s))

\* sparkline[:-k]
AllButLastK(s, k) == IF Len(s) <= k THEN <<>> ELSE SubSeq(s, 1, Len(s) - k)

\* twice np.median(s), s not empty: the sum of the two middle elements
MedianTimes2(s) ==
    LET n == Len(s)
    IN  KthSmallest(s, (n - 1) \div 2) + KthSmallest(s, n \div 2)

\* int(np.median(sparkline[-8:])) for non-negative samples
MedianVolume(sparkline) == MedianTimes2(LastK(sparkline, 8)) \div 2

\* 84 * np.polyfit(x, y, 1)[0] for the 8 samples y
Slope84(y) == SumSeq([x \in 1..8 |-> (2 * (x - 1) - 7) * y[x]])

\* line 295 with the condition previous_4 != 0
PercentChangeUnlessZero(recent_4, previous_4) ==
    IF previous_4 # 0
    THEN Sim(100 * (recent_4 - previous_4), previous_4)
    ELSE Sim(0, 1)

\* line 295, recent_4 and previous_4 handed in as four times the means
PercentChange(recent_4, previous_4) ==
    IF previous_4 > 0
    THEN Sim(100 * (recent_4 - previous_4), previous_4)
    ELSE Sim(0, 1)

\* _calculate_score: [slope84, percent_change, volatility2]
CalculateScore(sparkline) ==
    IF Len(sparkline) < 8
    THEN [slope84 |-> 0, percent_change |-> Sim(0, 1), volatility2 |-> Sim(0, 1)]
    ELSE LET recent_4 == SumSeq(LastK(sparkline, 4))
             previous_4 == SumSeq(AllButLastK(LastK(sparkline, 8), 4))
             n == Len(sparkline)
             total == SumSeq(sparkline)
             squares == SumSeq([i \in 1..n |-> sparkline[i] * sparkline[i]])
         IN  [slope84 |-> Slope84(LastK(sparkline, 8)),
              percent_change |-> PercentChange(recent_4, previous_4),
              volatility2 |-> Sim(n * squares - total * total, n * n)]

\* globalSettings.minVolumeThreshold of the seeds file
minVolumeThreshold == 10

\* val == 0, lines 443 and 448, with the comparison turned into val < 0
IsNegativeSample(val) == val < 0

\* val == 0, lines 443 and 448
IsZeroSample(val) == val = 0

\* line 455 with the percent change left out of the condition
WeakSlopeAlone(slope84, percent_change) == 10 * Abs(slope84) < 84

\* line 455: abs(slope) < 0.1 and abs(percent_change) < 5.0
WeakTrend(slope84, percent_change) ==
    /\ 10 * Abs(slope84) < 84
    /\ Abs(percent_change.n) < 5 * percent_change.d

\* lines 460-463 with the comparison made only against a positive
\* historical mean
SuspiciousSpikeOverHistory(sparkline) ==
    /\ Len(sparkline) > 4
    /\ SumSeq(AllButLastK(sparkline, 4)) > 0
    /\ SumSeq(LastK(sparkline, 4)) * (Len(sparkline) - 4)
           > 40 * SumSeq(AllButLastK(sparkline, 4))

\* lines 460-463: mean(sparkline[-4:]) > mean(sparkline[:-4]) * 10
SuspiciousSpike(sparkline) ==
    /\ Len(sparkline) > 4
    /\ SumSeq(LastK(sparkline, 4)) * (Len(sparkline) - 4)
           > 40 * SumSeq(AllButLastK(sparkline, 4))

\* The condition of the k-th check of _passes_quality_filters, on which the
\* function returns False.  slope is handed in as 84 * slope, percent_change
\* as a quotient, volatility (never negative) as the quotient of its square.
QualityCheckRejects(k, sparkline, slope84, percent_change, volatility2, min_volume) ==
    LET n == Len(sparkline)
        recent_weeks == LastK(sparkline, 4)
    IN  CASE k = 1 ->
                \* median_volume < min_volume; the median of no sample is nan,
                \* and nan < min_volume is False
                /\ sparkline # <<>>
                /\ MedianTimes2(LastK(sparkline, 8)) < 2 * min_volume
          [] k = 2 -> n < 8
          [] k = 3 -> volatility2.n > 2500 * volatility2.d
          [] k = 4 -> \A i \in 1..Len(recent_weeks) : IsZeroSample(recent_weeks[i])
          [] k = 5 ->
                \* zero_ratio > 0.7
                10 * Cardinality({i \in 1..n : IsZeroSample(sparkline[i])}) > 7 * n
          [] k = 6 -> WeakTrend(slope84, percent_change)
          [] k = 7 -> SuspiciousSpike(sparkline)

\* _passes_quality_filters: True when none of the seven checks, taken in
\* order, returns False
PassesQualityFilters(sparkline, slope84, percent_change, volatility2, min_volume) ==
    \A k \in 1..7 :
        ~QualityCheckRejects(k, sparkline, slope84, percent_change, volatility2,
                             min_volume)

----------------------------------------------------------------------------
(* _normalize_score and _calculate_final_scores.  Floats are fixed-point    *)
(* here: a z-score is kept in thousandths, a final score in units of        *)
(* 1/10000 (10 * z(slope) + 7 * z(percentChange) - 3 * z(volatility)).      *)

RECURSIVE ISqrtBetween(_, _, _)
ISqrtBetween(x, lo, hi) ==
    IF lo >= hi THEN lo
    ELSE LET mid == (lo + hi + 1) \div 2
         IN  IF mid * mid <= x THEN ISqrtBetween(x, mid, hi)
             ELSE ISqrtBetween(x, lo, mid - 1)

\* floor of the square root of x >= 0
ISqrt(x) == ISqrtBetween(x, 0, Min2(x, 46340))

\* _normalize_score as _calculate_final_scores uses it, in exact arithmetic:
\* z-scores in thousandths; with n values x,
\* (x - mean) / std = (n * x - sum) / sqrt(n * sum of squares - sum^2).
\* The rounding of each float operation is in NormalizeScoreFloat below.
NormalizeScore(values) ==
    LET n == Len(values)
        total == SumSeq(values)
        d == n * SumSeq([i \in 1..n |-> values[i] * values[i]]) - total * total
    IN  IF n < 2 \/ d = 0 THEN [i \in 1..n |-> 0]
        ELSE [i \in 1..n |-> ((n * values[i] - total) * 1000) \div ISqrt(d)]

\* Binary floating point as np.float64 does it, with MantissaBits bits of
\* mantissa in place of 53: a float is [m, e] for m * 2^e, m odd or zero,
\* |m| < 2^MantissaBits, and every operation rounds its exact result to the
\* nearest float, ties to the even mantissa.  Exponents have no range here.
MantissaBits == 5

RECURSIVE Pow2(_)
Pow2(k) == IF k <= 0 THEN 1 ELSE 2 * Pow2(k - 1)

RECURSIVE BitLength(_)
BitLength(x) == IF x <= 0 THEN 0 ELSE 1 + BitLength(x \div 2)

\* the float m * 2^e for |m| < 2^MantissaBits, in canonical form
RECURSIVE Canonical(_, _)
Canonical(m, e) ==
    IF m = 0 THEN [m |-> 0, e |-> 0]
    ELSE IF m % 2 = 0 THEN Canonical(m \div 2, e + 1)
    ELSE [m |-> m, e |-> e]

\* the float nearest to mag * 2^e, mag >= 0, ties to even
RoundMagnitude(mag, e) ==
    LET k == BitLength(mag) - MantissaBits
    IN  IF k <= 0 THEN Canonical(mag, e)
        ELSE LET q == mag \div Pow2(k)
                 r == mag % Pow2(k)
                 half == Pow2(k - 1)
                 up == r > half \/ (r = half /\ q % 2 = 1)
             IN  Canonical(IF up THEN q + 1 ELSE q, e + k)

FloatNeg(a) == [m |-> -a.m, e |-> a.e]

\* the float nearest to m * 2^e
RoundToFloat(m, e) ==
    IF m >= 0 THEN RoundMagnitude(m, e) ELSE FloatNeg(RoundMagnitude(-m, e))

FloatZero == [m |-> 0, e |-> 0]

FloatOfInt(i) == RoundToFloat(i, 0)

FloatAdd(a, b) ==
    IF a.m = 0 THEN b
    ELSE IF b.m = 0 THEN a
    ELSE LET e == Min2(a.e, b.e)
         IN  RoundToFloat(a.m * Pow2(a.e - e) + b.m * Pow2(b.e - e), e)

FloatSub(a, b) == FloatAdd(a, FloatNeg(b))

FloatMul(a, b) == RoundToFloat(a.m * b.m, a.e + b.e)

\* a / b for b # 0: the quotient to more than MantissaBits + 2 bits, with a
\* last bit that says whether the division left a remainder
FloatDiv(a, b) ==
    IF a.m = 0 THEN FloatZero
    ELSE LET k == 2 * MantissaBits + 2
             num == Abs(a.m) * Pow2(k)
             q == num \div Abs(b.m)
             sticky == IF num % Abs(b.m) = 0 THEN 0 ELSE 1
             mag == RoundMagnitude(2 * q + sticky, a.e - b.e - k - 1)
         IN  IF (a.m < 0) = (b.m < 0) THEN mag ELSE FloatNeg(mag)

\* sqrt(a) for a >= 0, the same way
FloatSqrt(a) ==
    IF a.m = 0 THEN FloatZero
    ELSE LET k == 2 * MantissaBits + 4 + (a.e % 2)
             num == a.m * Pow2(k)
             r == ISqrt(num)
             sticky == IF r * r = num THEN 0 ELSE 1
         IN  RoundMagnitude(2 * r + sticky, ((a.e - k) \div 2) - 1)

\* np.add.reduce over fewer than 8 values: one accumulator, left to right
RECURSIVE FloatSumFrom(_, _, _)
FloatSumFrom(values, i, acc) ==
    IF i > Len(values) THEN acc
    ELSE FloatSumFrom(values, i + 1, FloatAdd(acc, values[i]))

\* np.mean
FloatMean(values) ==
    FloatDiv(FloatSumFrom(values, 1, FloatZero), FloatOfInt(Len(values)))

\* np.std: the mean, the deviations from it, their squares, the mean of
\* the squares, its square root
FloatStdAbout(values, arrmean) ==
    FloatSqrt(FloatMean([i \in 1..Len(values) |->
                            FloatMul(FloatSub(values[i], arrmean),
                                     FloatSub(values[i], arrmean))]))

FloatStd(values) == FloatStdAbout(values, FloatMean(values))

NormalizeWith(values, mean_val, std_val) ==
    IF std_val = FloatZero THEN [i \in 1..Len(values) |-> FloatZero]
    ELSE [i \in 1..Len(values) |-> FloatDiv(FloatSub(values[i], mean_val), std_val)]

\* _normalize_score on floats, operation by operation
NormalizeScoreFloat(values) ==
    IF Len(values) < 2 THEN [i \in 1..Len(values) |-> FloatZero]
    ELSE NormalizeWith(values, FloatMean(values), FloatStd(values))

\* the literals 0.7 and 0.3 of lines 612-613, as they round
Float07 == FloatDiv(FloatOfInt(7), FloatOfInt(10))
Float03 == FloatDiv(FloatOfInt(3), FloatOfInt(10))

\* lines 610-615 for one topic: the expression is evaluated left to right
FinalScoreFloat(norm_slope, norm_percent_change, norm_volatility) ==
    FloatSub(FloatAdd(norm_slope, FloatMul(Float07, norm_percent_change)),
             FloatMul(Float03, norm_volatility))

\* lines 604-615 on the components extracted at lines 589-602, one record
\* [slope, percent_change, volatility] per topic: the scores, in order
FinalScoresFloat(components) ==
    LET n == Len(components)
        norm_slopes == NormalizeScoreFloat([i \in 1..n |-> components[i].slope])
        norm_percent_changes ==
            NormalizeScoreFloat([i \in 1..n |-> components[i].percent_change])
        norm_volatilities ==
            NormalizeScoreFloat([i \in 1..n |-> components[i].volatility])
    IN  [i \in 1..n |->
            FinalScoreFloat(norm_slopes[i], norm_percent_changes[i],
                            norm_volatilities[i])]

\* A float score in units of 2^-ScoreUnitExp, an integer that orders the
\* scores as the floats do.
ScoreUnitExp == 12

ScoreUnits(a) ==
    IF a.e >= -ScoreUnitExp THEN a.m * Pow2(a.e + ScoreUnitExp)
    ELSE a.m \div Pow2(-ScoreUnitExp - a.e)

\* lines 897-925 of run(): the batch rescored, then filtered and capped
RescoreAndFinalize(components) ==
    LET scores == FinalScoresFloat(components)
    IN  [scores |-> scores,
         finalized |->
             ApplyFinalFilteringAndCapping(
                 [i \in 1..Len(components) |->
                     [position |-> i, score |-> ScoreUnits(scores[i])]])]

\* percentChange in hundredths of a percent
PercentChangeCenti(pc) == (100 * pc.n) \div pc.d

\* np.std(sparkline) in tenths
VolatilityDeci(sparkline) ==
    LET n == Len(sparkline)
        total == SumSeq(sparkline)
        squares == SumSeq([i \in 1..n |-> sparkline[i] * sparkline[i]])
    IN  IF n > 1 THEN ISqrt((100 * (n * squares - total * total)) \div (n * n))
        ELSE 0

\* _calculate_final_scores
CalculateFinalScores(topics) ==
    IF topics = <<>> THEN topics
    ELSE LET n == Len(topics)
             slopes == [i \in 1..n |->
                           IF Len(topics[i].sparkline) >= 8
                           THEN Slope84(LastK(topics[i].sparkline, 8)) ELSE 0]
             percent_changes == [i \in 1..n |->
                                    PercentChangeCenti(topics[i].percentChange)]
             volatilities == [i \in 1..n |-> VolatilityDeci(topics[i].sparkline)]
             norm_slopes == NormalizeScore(slopes)
             norm_percent_changes == NormalizeScore(percent_changes)
             norm_volatilities == NormalizeScore(volatilities)
         IN  [i \in 1..n |->
                 [topics[i] EXCEPT !.score =
                     10 * norm_slopes[i] + 7 * norm_percent_changes[i]
                         - 3 * norm_volatilities[i]]]

----------------------------------------------------------------------------
(* _save_data and what it calls.  A topic is a function from its keys to     *)
(* their values.  An archive is named <<day>> for YYYY-MM-DD.json and        *)
(* <<day, second>> for YYYY-MM-DD_HHMMSS.json; a file is [name, content,     *)
(* mtime], mtime the day it was last written.                                *)

\* line 764: the longest sparkline written
max_sparkline_points == 24

\* line 654: the age in days beyond which an archive is removed
max_days_old == 7

\* sparkline[-24:] with the slice taken from the front, sparkline[:24]
TrimSparklineFront(sparkline) ==
    IF Len(sparkline) > max_sparkline_points
    THEN SubSeq(sparkline, 1, max_sparkline_points)
    ELSE sparkline

\* lines 761-765 for one sparkline
TrimSparkline(sparkline) ==
    IF Len(sparkline) > max_sparkline_points
    THEN LastK(sparkline, max_sparkline_points)
    ELSE sparkline

\* _optimize_sparklines: the topics of the list handed in are changed
OptimizeSparklines(topics) ==
    [i \in 1..Len(topics) |->
        [topics[i] EXCEPT !["sparkline"] = TrimSparkline(@)]]

\* line 754 with every key kept
KeepEveryKey(topic) == topic

\* line 754
WithoutDebug(topic) == [k \in (DOMAIN topic) \ {"debug"} |-> topic[k]]

\* _clean_debug_info
CleanDebugInfo(topics) == [i \in 1..Len(topics) |-> WithoutDebug(topics[i])]

\* lines 780-784, built from the list handed to _save_data
OutputData(topics, day, second) ==
    LET cleaned_topics == CleanDebugInfo(OptimizeSparklines(topics))
    IN  [generatedAt |-> <<day, second>>,
         totalTopics |-> Len(cleaned_topics),
         topics |-> cleaned_topics]

\* _validate_archive on what the file holds
ValidateArchive(data) ==
    /\ {"generatedAt", "totalTopics", "topics"} \subseteq DOMAIN data
    /\ data.topics # <<>> =>
           {"term", "category", "score", "sparkline"} \subseteq DOMAIN data.topics[1]

FileExists(dir, name) == \E f \in dir : f.name = name

\* open(path, 'w') and json.dump: the file is created or its content replaced
WriteFile(dir, name, content, day) ==
    {f \in dir : f.name # name}
        \cup {[name |-> name, content |-> content, mtime |-> day]}

RemoveFile(dir, name) == {f \in dir : f.name # name}

\* lines 796-805: the path the archive is written to, chosen without
\* looking whether the timestamped path exists
ArchiveName(dir, day, second) ==
    IF FileExists(dir, <<day>>) THEN <<day, second>> ELSE <<day>>

\* lines 634-648: the date of an archive, parsed from its name or, when
\* the name is not YYYY-MM-DD, taken from its modification time
FileDate(f) == IF Len(f.name) = 1 THEN f.name[1] ELSE f.mtime

\* line 654
TooOld(days_old) == days_old > max_days_old

\* _cleanup_archives: the files that remain
CleanupArchives(dir, current_date) ==
    {f \in dir : ~TooOld(current_date - FileDate(f))}

\* _save_data, lines 772-833: the archive directory it leaves
SaveArchive(dir, topics, day, second) ==
    LET output_data == OutputData(topics, day, second)
        archive_name == ArchiveName(dir, day, second)
        with_archive == WriteFile(dir, archive_name, output_data, day)
    IN  CleanupArchives(IF ValidateArchive(output_data)
                        THEN with_archive
                        ELSE RemoveFile(with_archive, archive_name),
                        day)

----------------------------------------------------------------------------
(* _process_category: the Topic of lines 557-573 *)

\* the names bound in the body of _process_category (lines 533-577)
ProcessCategoryLocals ==
    {"self", "category", "terms", "topics", "term", "sparkline", "slope",
     "percent_change", "volatility", "related_queries", "topic"}

\* the names bound at module level in build_data.py (lines 7-22, 29, 73,
\* 76, 130, 992)
ModuleGlobals ==
    {"json", "os", "sys", "logging", "datetime", "timedelta", "Dict", "List",
     "Tuple", "Optional", "time", "random", "TrendReq", "ResponseError",
     "TooManyRequestsError", "fuzz", "process", "np", "pd", "setup_logging",
     "logger", "ErrorTracker", "TrendsDataPipeline", "main"}

\* the names the dict literal of lines 557-573 reads, in evaluation order
TopicLiteralNames ==
    <<"term", "category", "percent_change", "sparkline", "datetime", "timedelta",
      "median_volume", "related_queries", "slope", "volatility">>

\* Evaluating the dict literal: a name that is neither a local of the
\* function nor a module global raises NameError and no dict is built.
TopicLiteralOutcome ==
    IF \A i \in 1..Len(TopicLiteralNames) :
           TopicLiteralNames[i] \in ProcessCategoryLocals \cup ModuleGlobals
    THEN "built"
    ELSE "NameError"

\* The Topic of lines 557-573 when the literal is built.  firstSeen and
\* lastSeen (wall-clock time) are left out.  'volume' is what
\* int(median_volume) denotes where that name is bound (line 423).
NewTopic(category, term, sparkline, sc, related_queries) ==
    [term |-> term,
     category |-> category,
     score |-> 0,
     percentChange |-> sc.percent_change,
     sparkline |-> sparkline,
     volume |-> MedianVolume(sparkline),
     relatedQueries |-> SubSeq(related_queries, 1, Min2(3, Len(related_queries))),
     debug |-> [slope84 |-> sc.slope84, volatility2 |-> sc.volatility2,
                medianVolume2 |-> MedianTimes2(LastK(sparkline, 8))]]

----------------------------------------------------------------------------
(* Bounds and inputs *)

\* longest list handed to _deduplicate_topics
MaxDedupLen == 3

\* calls of _deduplicate_topics in a row, each on the result of the last
MaxDedupCalls == 2

DedupScores == {1, 2, 3}

DedupTopicValues == [term : Pool, score : DedupScores]

RECURSIVE SeqsUpTo(_, _)
SeqsUpTo(S, n) ==
    IF n = 0 THEN {<<>>}
    ELSE LET shorter == SeqsUpTo(S, n - 1)
         IN  shorter \cup {Append(q, x) : q \in {r \in shorter : Len(r) = n - 1}, x \in S}

\* longest list of freely chosen scores handed to the final filter
MaxFilterLen == 3

\* how far beyond the cap the long lists handed to the final filter go
MaxFilterExtra == 20

FilterScores == {-2, 0, 1, 3}

FilterCategories == <<"ai-tools", "ecommerce", "fitness">>

\* a test topic as the tests build them (create_test_topic): term
\* "topic_<i>", the categories in rotation
FilterTopic(i, score) ==
    [term |-> i, category |-> FilterCategories[(i % 3) + 1], score |-> score]

\* the score of the i-th topic of a long list of n topics, by shape
ShapeScore(shape, i, n) ==
    CASE shape = "equal" -> 5
      [] shape = "descending" -> n + 1 - i
      [] shape = "ascending" -> i
      [] shape = "mixed" -> (i % 5) - 1
      [] shape = "negative" -> 0 - i

FilterShapes == {"equal", "descending", "ascending", "mixed", "negative"}

FilterInputs ==
    {[i \in 1..Len(q) |-> FilterTopic(i, q[i])] : q \in SeqsUpTo(FilterScores, MaxFilterLen)}
    \cup {[i \in 1..n |-> FilterTopic(i, ShapeScore(shape, i, n))] :
             n \in (max_topics - 1)..(max_topics + MaxFilterExtra),
             shape \in FilterShapes}

\* categories in the seeds file
MaxCategories == 2

RunTerms == {T_ChatGPT, T_ChatHyphenGPT, T_AI}

\* a category's config: with its 'terms' list, or without the key
CategoryConfigs ==
    {[has_terms |-> FALSE, terms |-> <<>>]}
    \cup {[has_terms |-> TRUE, terms |-> t] :
             t \in {<<>>, <<T_ChatGPT>>, <<T_ChatGPT, T_ChatHyphenGPT>>,
                    <<T_ChatHyphenGPT, T_ChatGPT>>, <<T_ChatGPT, T_ChatHyphenGPT, T_AI>>}}

SeedsChoices == SeqsUpTo(CategoryConfigs, MaxCategories) \ {<<>>}

\* 12 rising samples
SparkRising == <<10, 20, 30, 40, 50, 60, 70, 80, 90, 100, 110, 120>>

\* 12 rising samples, a weaker trend
SparkRisingSlow == <<20, 25, 30, 35, 40, 45, 50, 55, 60, 65, 70, 75>>

\* 12 flat samples
SparkFlat == <<30, 30, 30, 30, 30, 30, 30, 30, 30, 30, 30, 30>>

\* 12 samples, more than 70% of them zero
SparkSparse == <<0, 0, 0, 0, 40, 0, 0, 0, 0, 0, 60, 0>>

\* What _get_interest_over_time returns for a term: None (no data, fewer
\* than 8 samples, or the source raised) or the samples.
None == <<>>

SourceResponses == {None, SparkRising, SparkRisingSlow, SparkFlat, SparkSparse}

RelatedQueries == <<<<"q", "1">>, <<"q", "2">>, <<"q", "3">>, <<"q", "4">>>>

\* longest all-zero sparkline handed to _passes_quality_filters
MaxZeroLen == 12

Zeros(n) == [i \in 1..n |-> 0]

\* the sparklines of test_quality_filters, in the order of the test
TestSparklines ==
    {<<10, 15, 20, 25, 30, 35, 40, 45, 50, 55, 60, 65>>,
     <<1, 2, 1, 2, 1, 2, 1, 2, 1, 2, 1, 2>>,
     <<10, 80, 5, 90, 2, 85, 8, 88, 3, 87, 6, 89>>,
     <<10, 20, 30, 40, 50, 60, 70, 80, 0, 0, 0, 0>>,
     <<0, 0, 0, 0, 0, 0, 0, 0, 0, 0, 0, 0>>,
     <<10, 10, 10, 10, 10, 10, 10, 10, 10, 10, 10, 10>>,
     <<10, 10, 10, 10, 10, 10, 10, 10, 10, 10, 10, 1000>>}

\* sparklines at the edges of the checks: too short; 70% zeros exactly and
\* more than 70% zeros; the last four samples at 10 times the mean of the
\* others exactly and above it; nothing but zeros before the last four
EdgeSparklines ==
    {<<10, 20, 30, 40, 50>>,
     <<10, 20, 30, 40, 50, 60, 70>>,
     <<0, 0, 0, 0, 0, 0, 0, 20, 30, 40>>,
     <<0, 0, 0, 0, 0, 0, 0, 0, 20, 30, 40>>,
     <<10, 10, 10, 10, 10, 10, 10, 10, 100, 100, 100, 100>>,
     <<10, 10, 10, 10, 10, 10, 10, 10, 100, 100, 100, 101>>,
     <<0, 0, 0, 0, 0, 0, 0, 0, 50, 60, 70, 80>>,
     <<0, 0, 0, 0, 0, 0, 0, 0, 0, 0, 0, 90>>,
     <<0, 40, 50, 60, 70>>}

QualitySparklines ==
    TestSparklines \cup EdgeSparklines
        \cup {SparkRising, SparkRisingSlow, SparkSparse}
        \cup {Zeros(n) : n \in 0..MaxZeroLen}

\* 84 * slope for the slopes -5.0, 0.0, 8/84 (< 0.1), 9/84 (> 0.1), 5.0
QualitySlopes84 == {-420, 0, 8, 9, 420}

\* the percent changes -5.0, 0.0, 4.9, 5.0, 30.0
QualityPercentChanges == {Sim(-50, 10), Sim(0, 1), Sim(49, 10), Sim(50, 10), Sim(30, 1)}

\* the squares of the volatilities 0.0, 20.0, 50.0, 51.0
QualityVolatilities2 == {Sim(0, 1), Sim(400, 1), Sim(2500, 1), Sim(2601, 1)}

QualityMinVolumes == {-1, 0, 5, 10}

QualityInputs ==
    [sparkline : QualitySparklines, slope84 : QualitySlopes84,
     percent_change : QualityPercentChanges, volatility2 : QualityVolatilities2,
     min_volume : QualityMinVolumes]

\* the terms _calculate_similarity_threshold is called on: of 2, 3 and 4
\* characters, with a digit, of 20 characters and of more than 20
TT_AI == <<"A", "I">>

TT_A_I_ == <<"A", ".", "I", ".">>

TT_GPT == <<"G", "P", "T">>

TT_3D == <<"3", "D">>

TT_Python3 == <<"P", "y", "t", "h", "o", "n", "3">>

TT_Python_3 == <<"P", "y", "t", "h", "o", "n", " ", "3">>

TT_MachineLearning == <<"M", "a", "c", "h", "i", "n", "e", " ", "L", "e", "a", "r", "n", "i", "n", "g">>

TT_DeepLearning == <<"D", "e", "e", "p", " ", "L", "e", "a", "r", "n", "i", "n", "g">>

TT_Len20 == <<"R", "e", "i", "n", "f", "o", "r", "c", "e", "m", "e", "n", "t", " ", "M", "o", "d", "e", "l", "s">>

TT_Len21 == <<"R", "e", "i", "n", "f", "o", "r", "c", "e", "m", "e", "n", "t", " ", "L", "e", "a", "r", "n", "e", "r">>

TT_VeryLong == <<"V", "e", "r", "y", " ", "L", "o", "n", "g", " ", "T", "e", "r", "m", " ", "N", "a", "m", "e", " ", "H", "e", "r", "e">>

TT_LongDigit == <<"S", "t", "a", "b", "l", "e", " ", "D", "i", "f", "f", "u", "s", "i", "o", "n", " ", "3", " ", "M", "e", "d", "i", "u", "m">>

ThresholdTerms ==
    {<<>>, TT_AI, TT_A_I_, TT_GPT, TT_3D, TT_Python3,
     TT_Python_3, TT_MachineLearning, TT_DeepLearning, TT_Len20,
     TT_Len21, TT_VeryLong, TT_LongDigit}

----------------------------------------------------------------------------
(* The state when a part of the program is not running *)

DedupIdle ==
    /\ d_input = <<>>
    /\ d_topics = <<>>
    /\ topics_sorted = <<>>
    /\ d_idx = 0
    /\ unique_topics = <<>>
    /\ seen_terms = {}
    /\ d_replaced = FALSE
    /\ d_results = <<>>
    /\ d_pc = "idle"

FilterIdle ==
    /\ f_topics = <<>>
    /\ f_result = <<>>
    /\ f_pc = "idle"

RunIdle ==
    /\ seeds_data = <<>>
    /\ source = <<>>
    /\ all_topics = <<>>
    /\ cat_idx = 0
    /\ term_idx = 0
    /\ category_topics = <<>>
    /\ processed = {}
    /\ terms_taken = {}
    /\ passed_filter = {}
    /\ created = {}
    /\ errors = <<>>
    /\ stages = <<>>
    /\ saved = <<>>
    /\ run_result = "none"
    /\ r_pc = "idle"

CallIdle ==
    /\ call_fn = "none"
    /\ call_args = <<>>
    /\ call_result = "none"
    /\ call_step = 0
    /\ call_pc = "idle"

SaveIdle ==
    /\ today = 0
    /\ hms = 0
    /\ latest_file = "none"
    /\ archive_dir = {}
    /\ s_topics = <<>>
    /\ s_before = <<>>
    /\ archives_written = <<>>
    /\ s_pc = "idle"

RateLimitIdle ==
    /\ now = 0
    /\ last_request_time = 0
    /\ sleep_time = 0
    /\ returns = <<>>
    /\ t_caller = "none"
    /\ t_pc = "idle"

----------------------------------------------------------------------------
(* _deduplicate_topics called on a list of topics, then on its own result *)

InitDedup ==
    /\ d_input \in SeqsUpTo(DedupTopicValues, MaxDedupLen)
    /\ d_topics = d_input
    /\ topics_sorted = <<>>
    /\ d_idx = 0
    /\ unique_topics = <<>>
    /\ seen_terms = {}
    /\ d_replaced = FALSE
    /\ d_results = <<>>
    /\ d_pc = "call"
    /\ FilterIdle
    /\ RunIdle
    /\ CallIdle
    /\ SaveIdle
    /\ RateLimitIdle

\* lines 352-362: the early return for an empty list, or the sort and the
\* empty accumulators
DedupEnter ==
    /\ d_pc = "call"
    /\ IF d_topics = <<>>
       THEN /\ d_results' = Append(d_results, d_topics)
            /\ d_pc' = "returned"
            /\ UNCHANGED <<topics_sorted, d_idx, unique_topics, seen_terms, d_replaced>>
       ELSE /\ topics_sorted' = SortByScoreDesc(d_topics)
            /\ d_idx' = 1
            /\ unique_topics' = <<>>
            /\ seen_terms' = {}
            /\ d_replaced' = FALSE
            /\ d_pc' = "loop"
            /\ UNCHANGED d_results
    /\ UNCHANGED <<d_input, d_topics, fvars, rvars, cvars, svars, tvars>>

\* the accumulators of the loop take the values one iteration leaves
DedupAssign(st) ==
    /\ unique_topics' = st.unique
    /\ seen_terms' = st.seen
    /\ d_replaced' = st.replaced

\* one iteration of the for loop of line 364
DedupStep ==
    /\ d_pc = "loop"
    /\ d_idx <= Len(topics_sorted)
    /\ DedupAssign(DedupIteration([unique |-> unique_topics, seen |-> seen_terms,
                                   replaced |-> d_replaced],
                                  topics_sorted[d_idx]))
    /\ d_idx' = d_idx + 1
    /\ UNCHANGED <<d_input, d_topics, topics_sorted, d_results, d_pc, fvars, rvars, cvars, svars, tvars>>

\* line 417
DedupReturn ==
    /\ d_pc = "loop"
    /\ d_idx > Len(topics_sorted)
    /\ d_results' = Append(d_results, unique_topics)
    /\ d_pc' = "returned"
    /\ UNCHANGED <<d_input, d_topics, topics_sorted, d_idx, unique_topics, seen_terms,
                   d_replaced, fvars, rvars, cvars, svars, tvars>>

\* the caller hands the returned list to _deduplicate_topics again
DedupCallAgain ==
    /\ d_pc = "returned"
    /\ Len(d_results) < MaxDedupCalls
    /\ d_topics' = d_results[Len(d_results)]
    /\ d_pc' = "call"
    /\ UNCHANGED <<d_input, topics_sorted, d_idx, unique_topics, seen_terms, d_replaced,
                   d_results, fvars, rvars, cvars, svars, tvars>>

NextDedup == DedupEnter \/ DedupStep \/ DedupReturn \/ DedupCallAgain

SpecDedup == InitDedup /\ [][NextDedup]_vars

----------------------------------------------------------------------------
(* _apply_final_filtering_and_capping called on a list of topics *)

InitFilter ==
    /\ f_topics \in FilterInputs
    /\ f_result = <<>>
    /\ f_pc = "call"
    /\ DedupIdle
    /\ RunIdle
    /\ CallIdle
    /\ SaveIdle
    /\ RateLimitIdle

FilterCall ==
    /\ f_pc = "call"
    /\ f_result' = ApplyFinalFilteringAndCapping(f_topics)
    /\ f_pc' = "returned"
    /\ UNCHANGED <<f_topics, dvars, rvars, cvars, svars, tvars>>

NextFilter == FilterCall

SpecFilter == InitFilter /\ [][NextFilter]_vars

----------------------------------------------------------------------------
(* run(): the categories of the seeds file in order, then deduplication,    *)
(* final scores, sort, final filter and save                                *)

InitRun ==
    /\ seeds_data \in SeedsChoices
    /\ source \in [RunTerms -> SourceResponses]
    /\ all_topics = <<>>
    /\ cat_idx = 1
    /\ term_idx = 0
    /\ category_topics = <<>>
    /\ processed = {}
    /\ terms_taken = {}
    /\ passed_filter = {}
    /\ created = {}
    /\ errors = <<>>
    /\ stages = <<>>
    /\ saved = <<>>
    /\ run_result = "none"
    /\ r_pc = "categories"
    /\ DedupIdle
    /\ FilterIdle
    /\ CallIdle
    /\ SaveIdle
    /\ RateLimitIdle

\* lines 858-861 for the next category.  Without the key 'terms' line 860
\* raises KeyError; the handler of line 871 evaluates config['terms'] again
\* at line 875, which raises KeyError inside the handler, and the except of
\* line 951 ends run() with False.
RunNextCategory ==
    /\ r_pc = "categories"
    /\ cat_idx <= Len(seeds_data)
    /\ processed' = processed \cup {cat_idx}
    /\ IF seeds_data[cat_idx].has_terms
       THEN /\ term_idx' = 1
            /\ category_topics' = <<>>
            /\ r_pc' = "terms"
            /\ UNCHANGED <<errors, run_result>>
       ELSE /\ errors' = Append(errors, "PIPELINE_CRITICAL_ERROR")
            /\ run_result' = "False"
            /\ r_pc' = "done"
            /\ UNCHANGED <<term_idx, category_topics>>
    /\ UNCHANGED <<seeds_data, source, all_topics, cat_idx, terms_taken, passed_filter,
                   created, stages, saved, dvars, fvars, cvars, svars, tvars>>

\* the term the loop of line 538 is at
CurrentTerm == seeds_data[cat_idx].terms[term_idx]

\* lines 557-575 for a term that passed the filter: the Topic is built and
\* appended, or the dict literal raises NameError, _process_category ends
\* without returning, and the handler of lines 871-878 logs the error and
\* goes on to the next category.
CreateTopic(sparkline) ==
    IF TopicLiteralOutcome = "built"
    THEN /\ category_topics' =
                Append(category_topics,
                       NewTopic(cat_idx, CurrentTerm, sparkline,
                                CalculateScore(sparkline), RelatedQueries))
         /\ created' = created \cup
                {[pos |-> <<cat_idx, term_idx>>,
                  topic |-> NewTopic(cat_idx, CurrentTerm, sparkline,
                                     CalculateScore(sparkline), RelatedQueries)]}
         /\ term_idx' = term_idx + 1
         /\ UNCHANGED <<cat_idx, errors, r_pc>>
    ELSE /\ errors' = Append(errors, "CATEGORY_PROCESSING_ERROR")
         /\ category_topics' = <<>>
         /\ cat_idx' = cat_idx + 1
         /\ r_pc' = "categories"
         /\ UNCHANGED <<created, term_idx>>

\* lines 542-551 for a sparkline and its score components
PassesFilter(sparkline, sc) ==
    PassesQualityFilters(sparkline, sc.slope84, sc.percent_change, sc.volatility2,
                         minVolumeThreshold)

\* one iteration of the for loop of line 538
ProcessTerm ==
    /\ r_pc = "terms"
    /\ term_idx <= Len(seeds_data[cat_idx].terms)
    /\ terms_taken' = terms_taken \cup {<<cat_idx, term_idx>>}
    /\ IF source[CurrentTerm] = None
          \/ ~PassesFilter(source[CurrentTerm], CalculateScore(source[CurrentTerm]))
       THEN /\ term_idx' = term_idx + 1
            /\ UNCHANGED <<passed_filter, created, category_topics, cat_idx, errors, r_pc>>
       ELSE /\ passed_filter' = passed_filter \cup {<<cat_idx, term_idx>>}
            /\ CreateTopic(source[CurrentTerm])
    /\ UNCHANGED <<seeds_data, source, all_topics, processed, stages, saved,
                   run_result, dvars, fvars, cvars, svars, tvars>>

\* line 577, then lines 864-869
ProcessCategoryReturn ==
    /\ r_pc = "terms"
    /\ term_idx > Len(seeds_data[cat_idx].terms)
    /\ all_topics' = all_topics \o category_topics
    /\ category_topics' = <<>>
    /\ cat_idx' = cat_idx + 1
    /\ r_pc' = "categories"
    /\ UNCHANGED <<seeds_data, source, term_idx, processed, terms_taken, passed_filter,
                   created,
                   errors, stages, saved, run_result, dvars, fvars, cvars, svars, tvars>>

\* deduplication entered from the loop of line 858 before the loop is
\* exhausted
RunDeduplicateEarly ==
    /\ r_pc = "categories"
    /\ all_topics' = DeduplicateTopics(all_topics)
    /\ stages' = Append(stages, "dedup")
    /\ r_pc' = "score"
    /\ UNCHANGED <<seeds_data, source, cat_idx, term_idx, category_topics, processed,
                   terms_taken, passed_filter, created, errors, saved, run_result,
                   dvars, fvars, cvars, svars, tvars>>

\* lines 880-895, once the loop of line 858 is exhausted
RunDeduplicate ==
    /\ r_pc = "categories"
    /\ cat_idx > Len(seeds_data)
    /\ all_topics' = DeduplicateTopics(all_topics)
    /\ stages' = Append(stages, "dedup")
    /\ r_pc' = "score"
    /\ UNCHANGED <<seeds_data, source, cat_idx, term_idx, category_topics, processed,
                   terms_taken, passed_filter, created, errors, saved, run_result, dvars, fvars, cvars, svars, tvars>>

\* lines 897-908
RunCalculateFinalScores ==
    /\ r_pc = "score"
    /\ all_topics' = CalculateFinalScores(all_topics)
    /\ stages' = Append(stages, "score")
    /\ r_pc' = "sort"
    /\ UNCHANGED <<seeds_data, source, cat_idx, term_idx, category_topics, processed,
                   terms_taken, passed_filter, created, errors, saved, run_result, dvars, fvars, cvars, svars, tvars>>

\* line 911
RunSort ==
    /\ r_pc = "sort"
    /\ all_topics' = SortByScoreDesc(all_topics)
    /\ stages' = Append(stages, "sort")
    /\ r_pc' = "filter"
    /\ UNCHANGED <<seeds_data, source, cat_idx, term_idx, category_topics, processed,
                   terms_taken, passed_filter, created, errors, saved, run_result, dvars, fvars, cvars, svars, tvars>>

\* lines 913-925
RunFinalFilter ==
    /\ r_pc = "filter"
    /\ all_topics' = ApplyFinalFilteringAndCapping(all_topics)
    /\ stages' = Append(stages, "filter")
    /\ r_pc' = "save"
    /\ UNCHANGED <<seeds_data, source, cat_idx, term_idx, category_topics, processed,
                   terms_taken, passed_filter, created, errors, saved, run_result, dvars, fvars, cvars, svars, tvars>>

\* lines 927-949 and 951-958: _save_data writes the file, or raises (the
\* file cannot be written) and run() logs both errors and returns False
RunSave ==
    /\ r_pc = "save"
    /\ \E written \in BOOLEAN :
           IF written
           THEN /\ saved' = Append(saved, all_topics)
                /\ run_result' = "True"
                /\ UNCHANGED errors
           ELSE /\ errors' = errors \o <<"SAVE_ERROR", "PIPELINE_CRITICAL_ERROR">>
                /\ run_result' = "False"
                /\ UNCHANGED saved
    /\ stages' = Append(stages, "save")
    /\ r_pc' = "done"
    /\ UNCHANGED <<seeds_data, source, all_topics, cat_idx, term_idx, category_topics,
                   processed, terms_taken, passed_filter, created, dvars, fvars, cvars, svars, tvars>>

NextRun ==
    \/ RunNextCategory
    \/ ProcessTerm
    \/ ProcessCategoryReturn
    \/ RunDeduplicate
    \/ RunCalculateFinalScores
    \/ RunSort
    \/ RunFinalFilter
    \/ RunSave

SpecRun == InitRun /\ [][NextRun]_vars

----------------------------------------------------------------------------
(* _passes_quality_filters called on its own, one check after another *)

InitQuality ==
    /\ call_fn = "_passes_quality_filters"
    /\ call_args \in QualityInputs
    /\ call_result = "none"
    /\ call_step = 1
    /\ call_pc = "call"
    /\ DedupIdle
    /\ FilterIdle
    /\ RunIdle
    /\ SaveIdle
    /\ RateLimitIdle

\* the check call_pc is at: return False, go on to the next check, or
\* return True after the seventh (line 468)
QualityFilterStep ==
    /\ call_fn = "_passes_quality_filters"
    /\ call_pc = "call"
    /\ IF QualityCheckRejects(call_step, call_args.sparkline, call_args.slope84,
                              call_args.percent_change, call_args.volatility2,
                              call_args.min_volume)
       THEN /\ call_result' = FALSE
            /\ call_pc' = "returned"
            /\ UNCHANGED call_step
       ELSE IF call_step = 7
            THEN /\ call_result' = TRUE
                 /\ call_pc' = "returned"
                 /\ UNCHANGED call_step
            ELSE /\ call_step' = call_step + 1
                 /\ UNCHANGED <<call_result, call_pc>>
    /\ UNCHANGED <<call_fn, call_args, dvars, fvars, rvars, svars, tvars>>

NextQuality == QualityFilterStep

SpecQuality == InitQuality /\ [][NextQuality]_vars

----------------------------------------------------------------------------
(* _calculate_similarity_threshold called on its own *)

InitThreshold ==
    /\ call_fn = "_calculate_similarity_threshold"
    /\ call_args \in [term1 : ThresholdTerms, term2 : ThresholdTerms]
    /\ call_result = "none"
    /\ call_step = 0
    /\ call_pc = "call"
    /\ DedupIdle
    /\ FilterIdle
    /\ RunIdle
    /\ SaveIdle
    /\ RateLimitIdle

ThresholdCall ==
    /\ call_fn = "_calculate_similarity_threshold"
    /\ call_pc = "call"
    /\ call_result' = CalculateSimilarityThreshold(call_args.term1, call_args.term2)
    /\ call_pc' = "returned"
    /\ UNCHANGED <<call_fn, call_args, call_step, dvars, fvars, rvars, svars, tvars>>

NextThreshold == ThresholdCall

SpecThreshold == InitThreshold /\ [][NextThreshold]_vars

----------------------------------------------------------------------------
(* _normalize_score called on its own *)

MaxNormalizeLen == 3

\* 0.0, 1.0, 0.5, -1.0, and 0.1, 0.7 and 0.9 as the literals round
NormalizeValues ==
    {FloatZero, FloatOfInt(1), FloatDiv(FloatOfInt(1), FloatOfInt(2)),
     FloatOfInt(-1), FloatDiv(FloatOfInt(1), FloatOfInt(10)),
     FloatDiv(FloatOfInt(7), FloatOfInt(10)), FloatDiv(FloatOfInt(9), FloatOfInt(10))}

InitNormalize ==
    /\ call_fn = "_normalize_score"
    /\ call_args \in SeqsUpTo(NormalizeValues, MaxNormalizeLen)
    /\ call_result = "none"
    /\ call_step = 0
    /\ call_pc = "call"
    /\ DedupIdle
    /\ FilterIdle
    /\ RunIdle
    /\ SaveIdle
    /\ RateLimitIdle

NormalizeCall ==
    /\ call_fn = "_normalize_score"
    /\ call_pc = "call"
    /\ call_result' = NormalizeScoreFloat(call_args)
    /\ call_pc' = "returned"
    /\ UNCHANGED <<call_fn, call_args, call_step, dvars, fvars, rvars, svars, tvars>>

NextNormalize == NormalizeCall

SpecNormalize == InitNormalize /\ [][NextNormalize]_vars

----------------------------------------------------------------------------
(* _calculate_score called on its own *)

MaxScoreLen == 9

ScoreSamples == {-5, 0, 20}

InitScore ==
    /\ call_fn = "_calculate_score"
    /\ call_args \in SeqsUpTo(ScoreSamples, MaxScoreLen)
    /\ call_result = "none"
    /\ call_step = 0
    /\ call_pc = "call"
    /\ DedupIdle
    /\ FilterIdle
    /\ RunIdle
    /\ SaveIdle
    /\ RateLimitIdle

ScoreCall ==
    /\ call_fn = "_calculate_score"
    /\ call_pc = "call"
    /\ call_result' = CalculateScore(call_args)
    /\ call_pc' = "returned"
    /\ UNCHANGED <<call_fn, call_args, call_step, dvars, fvars, rvars, svars, tvars>>

NextScore == ScoreCall

SpecScore == InitScore /\ [][NextScore]_vars

----------------------------------------------------------------------------
(* _save_data called again and again, and _cleanup_archives on its own,     *)
(* while the clock runs.  One call reads the clock once.                    *)

MaxSaves == 2
MaxSecond == 1
MaxDaysRun == 1
MaxArchiveDays == 10

\* n weekly samples, all different
Ramp(n) == [i \in 1..n |-> i]

SaveTopic(term, n) ==
    [term |-> term, category |-> "ai-tools", score |-> 3, sparkline |-> Ramp(n)]

SaveTopicDebug(term, n) ==
    [term |-> term, category |-> "ai-tools", score |-> 3, sparkline |-> Ramp(n),
     debug |-> [similarity |-> 90]]

SaveInputs ==
    {<<>>,
     <<SaveTopic(T_ChatGPT, 8)>>,
     <<SaveTopicDebug(T_ChatGPT, 25)>>,
     <<SaveTopic(T_ChatGPT, 24), SaveTopicDebug(T_AI, 30)>>,
     <<SaveTopicDebug(T_AI, 52), SaveTopic(T_ChatGPT, 8)>>,
     <<SaveTopic(T_ChatGPT, 25), SaveTopic(T_AI, 26)>>}

\* the day the clock shows at the start
FirstDay == MaxArchiveDays

\* the archive an earlier run wrote on a day
EarlierArchive(day) ==
    [name |-> <<day>>,
     content |-> [generatedAt |-> <<day, 0>>, totalTopics |-> 0, topics |-> <<>>],
     mtime |-> day]

\* one dated archive for each of the last k days, today included
ArchivesOfLastDays(k) == {EarlierArchive(FirstDay - i) : i \in 0..(k - 1)}

InitSave ==
    /\ today = FirstDay
    /\ hms = 0
    /\ latest_file = "none"
    /\ archive_dir \in {ArchivesOfLastDays(k) : k \in 0..MaxArchiveDays}
    /\ s_topics = <<>>
    /\ s_before = <<>>
    /\ archives_written = <<>>
    /\ s_pc = "ready"
    /\ DedupIdle
    /\ FilterIdle
    /\ RunIdle
    /\ CallIdle
    /\ RateLimitIdle

\* _save_data(topics), lines 770-844
SaveData ==
    /\ s_pc \in {"ready", "saved", "cleaned"}
    /\ Len(archives_written) < MaxSaves
    /\ \E topics \in SaveInputs :
           /\ s_before' = topics
           /\ s_topics' = OptimizeSparklines(topics)
           /\ latest_file' = OutputData(topics, today, hms)
           /\ archive_dir' = SaveArchive(archive_dir, topics, today, hms)
    /\ archives_written' = Append(archives_written, ArchiveName(archive_dir, today, hms))
    /\ s_pc' = "saved"
    /\ UNCHANGED <<today, hms, dvars, fvars, rvars, cvars, tvars>>

\* _cleanup_archives(), lines 619-665
CleanupArchivesCall ==
    /\ s_pc \in {"ready", "saved"}
    /\ archive_dir' = CleanupArchives(archive_dir, today)
    /\ s_pc' = "cleaned"
    /\ UNCHANGED <<today, hms, latest_file, s_topics, s_before, archives_written,
                   dvars, fvars, rvars, cvars, tvars>>

\* a second passes between two calls
SecondPasses ==
    /\ s_pc \in {"ready", "saved", "cleaned"}
    /\ hms < MaxSecond
    /\ hms' = hms + 1
    /\ UNCHANGED <<today, latest_file, archive_dir, s_topics, s_before,
                   archives_written, s_pc, dvars, fvars, rvars, cvars, tvars>>

\* midnight passes between two calls
DayPasses ==
    /\ s_pc \in {"ready", "saved", "cleaned"}
    /\ today < FirstDay + MaxDaysRun
    /\ today' = today + 1
    /\ hms' = 0
    /\ UNCHANGED <<latest_file, archive_dir, s_topics, s_before,
                   archives_written, s_pc, dvars, fvars, rvars, cvars, tvars>>

NextSave ==
    \/ SaveData
    \/ CleanupArchivesCall
    \/ SecondPasses
    \/ DayPasses

SpecSave == InitSave /\ [][NextSave]_vars

----------------------------------------------------------------------------
(* _rate_limit, called at the start of _get_interest_over_time and of       *)
(* _get_related_queries, one call after another.  Time is in seconds;       *)
(* time.time() does not go back, and time.sleep(t) lasts at least t.        *)

\* line 165
min_delay == 12

\* line 193: random.uniform(0, 3)
max_jitter == 3

MaxRateLimitCalls == 2
StartTime == 100
MaxElapsed == 30
MaxOversleep == 1

\* line 193 without min_delay - time_since_last
SleepTimeJitterOnly(time_since_last, jitter) == jitter

\* line 193
SleepTime(time_since_last, jitter) == min_delay - time_since_last + jitter

InitRateLimit ==
    /\ now = StartTime
    /\ last_request_time = 0
    /\ sleep_time = 0
    /\ returns = <<>>
    /\ t_caller = "none"
    /\ t_pc = "idle"
    /\ DedupIdle
    /\ FilterIdle
    /\ RunIdle
    /\ CallIdle
    /\ SaveIdle

\* lines 199-202 and 246-249: a signal-source call starts
SignalSourceCall ==
    /\ t_pc = "idle"
    /\ Len(returns) < MaxRateLimitCalls
    /\ t_caller' \in {"_get_interest_over_time", "_get_related_queries"}
    /\ t_pc' = "rate_limit"
    /\ UNCHANGED <<now, last_request_time, sleep_time, returns,
                   dvars, fvars, rvars, cvars, svars>>

\* lines 189-193
RateLimitCheck ==
    /\ t_pc = "rate_limit"
    /\ LET current_time == now
           time_since_last == current_time - last_request_time
       IN  IF time_since_last < min_delay
           THEN /\ \E jitter \in 0..max_jitter :
                       sleep_time' = SleepTime(time_since_last, jitter)
                /\ t_pc' = "sleep"
           ELSE /\ t_pc' = "record"
                /\ UNCHANGED sleep_time
    /\ UNCHANGED <<now, last_request_time, returns, t_caller,
                   dvars, fvars, rvars, cvars, svars>>

\* line 195
RateLimitSleep ==
    /\ t_pc = "sleep"
    /\ \E overslept \in 0..MaxOversleep :
           /\ now + sleep_time + overslept <= StartTime + MaxElapsed
           /\ now' = now + sleep_time + overslept
    /\ t_pc' = "record"
    /\ UNCHANGED <<last_request_time, sleep_time, returns, t_caller,
                   dvars, fvars, rvars, cvars, svars>>

\* line 197
RateLimitReturn ==
    /\ t_pc = "record"
    /\ last_request_time' = now
    /\ returns' = Append(returns, [caller |-> t_caller,
                                   before |-> last_request_time,
                                   recorded |-> now])
    /\ t_pc' = "request"
    /\ UNCHANGED <<now, sleep_time, t_caller, dvars, fvars, rvars, cvars, svars>>

\* lines 205-206 and 251-252: the signal source has answered or failed
SignalSourceReturn ==
    /\ t_pc = "request"
    /\ t_caller' = "none"
    /\ t_pc' = "idle"
    /\ UNCHANGED <<now, last_request_time, sleep_time, returns,
                   dvars, fvars, rvars, cvars, svars>>

\* time passes, wherever the pipeline is
TimePasses ==
    /\ now < StartTime + MaxElapsed
    /\ now' = now + 1
    /\ UNCHANGED <<last_request_time, sleep_time, returns, t_caller, t_pc,
                   dvars, fvars, rvars, cvars, svars>>

NextRateLimit ==
    \/ SignalSourceCall
    \/ RateLimitCheck
    \/ RateLimitSleep
    \/ RateLimitReturn
    \/ SignalSourceReturn
    \/ TimePasses

SpecRateLimit == InitRateLimit /\ [][NextRateLimit]_vars

----------------------------------------------------------------------------
(* _calculate_final_scores on a batch, then _apply_final_filtering_and_      *)
(* capping on the rescored batch, as run() calls them.                       *)

MaxBatchLen == 3

\* the components of a topic: slope, percent change, volatility
BatchComponents ==
    [slope : {FloatOfInt(1), FloatDiv(FloatOfInt(1), FloatOfInt(10)),
              FloatDiv(FloatOfInt(7), FloatOfInt(10)),
              FloatDiv(FloatOfInt(9), FloatOfInt(10))},
     percent_change : {FloatZero, FloatOfInt(3)},
     volatility : {FloatZero, FloatDiv(FloatOfInt(1), FloatOfInt(2))}]

InitRescore ==
    /\ call_fn = "_calculate_final_scores"
    /\ call_args \in SeqsUpTo(BatchComponents, MaxBatchLen) \ {<<>>}
    /\ call_result = "none"
    /\ call_step = 0
    /\ call_pc = "call"
    /\ DedupIdle
    /\ FilterIdle
    /\ RunIdle
    /\ SaveIdle
    /\ RateLimitIdle

RescoreCall ==
    /\ call_fn = "_calculate_final_scores"
    /\ call_pc = "call"
    /\ call_result' = RescoreAndFinalize(call_args)
    /\ call_pc' = "returned"
    /\ UNCHANGED <<call_fn, call_args, call_step, dvars, fvars, rvars, svars, tvars>>

NextRescore == RescoreCall

SpecRescore == InitRescore /\ [][NextRescore]_vars

----------------------------------------------------------------------------
(* Properties of _apply_final_filtering_and_capping *)

\* C1: whatever list of topics _apply_final_filtering_and_capping is handed,
\* the list it returns holds at most 150 topics.
C1_AtMostMaxTopics ==
    f_pc = "returned" => Len(f_result) <= max_topics

\* more than 150 topics came in and passed both filters; 150 came out
C1_Witness ==
    /\ f_pc = "returned"
    /\ Len(f_topics) > max_topics
    /\ \A i \in 1..Len(f_topics) : f_topics[i].score > 0
    /\ Len(f_result) = max_topics

\* C2: the list _apply_final_filtering_and_capping returns holds no topic
\* whose score is zero or negative, and it is empty when every topic handed
\* in has a negative score.
C2_NoNonPositiveScore ==
    f_pc = "returned" =>
        /\ \A i \in 1..Len(f_result) : f_result[i].score > 0
        /\ (\A i \in 1..Len(f_topics) : f_topics[i].score < 0) => f_result = <<>>

\* a list with a zero, a negative and a positive score came in and a
\* non-empty list came out
C2_Witness ==
    /\ f_pc = "returned"
    /\ \E i \in 1..Len(f_topics) : f_topics[i].score = 0
    /\ \E i \in 1..Len(f_topics) : f_topics[i].score < 0
    /\ f_result # <<>>

\* the positive scores of a list of topics, in order
PositiveScores(topics) ==
    LET positive == SelectSeq(topics, LAMBDA t : t.score > 0)
    IN  [i \in 1..Len(positive) |-> positive[i].score]

\* the topics with a score > 0 and >= the 10th percentile of the positive
\* scores, in input order
AboveTenthPercentile(topics) ==
    LET p10 == Percentile10Times10(PositiveScores(topics))
    IN  SelectSeq(topics, LAMBDA t : t.score > 0 /\ 10 * t.score >= p10)

\* C17: _apply_final_filtering_and_capping returns, in input order and
\* unaltered, the first 150 (or all, if fewer) of the topics handed in
\* whose score is > 0 and >= the 10th percentile of all the positive
\* scores handed in.
C17_PrefixOfFilteredInput ==
    f_pc = "returned" =>
        LET filtered == AboveTenthPercentile(f_topics)
        IN  f_result = SubSeq(filtered, 1, Min2(max_topics, Len(filtered)))

\* more than 150 topics came in, the percentile dropped the first of them
\* and the cap dropped the last
C17_Witness ==
    /\ f_pc = "returned"
    /\ Len(f_topics) > max_topics
    /\ f_topics[1].score > 0
    /\ Len(f_result) = max_topics
    /\ f_result[1] # f_topics[1]
    /\ f_result[max_topics] # f_topics[Len(f_topics)]

----------------------------------------------------------------------------
(* Properties of _deduplicate_topics *)

\* the list the last call of _deduplicate_topics returned
DedupReturned == d_results[Len(d_results)]

\* C3: in the list _deduplicate_topics returns, no two topics at distinct
\* positions have terms with the same normalized key.
C3_NoSharedNormalizedKey ==
    d_pc = "returned" =>
        \A i, j \in 1..Len(DedupReturned) :
            i # j => Normalized(DedupReturned[i].term) # Normalized(DedupReturned[j].term)

\* two differently written terms with one normalized key came in, and
\* two topics came out
C3_Witness ==
    /\ d_pc = "returned"
    /\ Len(d_results) = 1
    /\ \E i, j \in 1..Len(d_input) :
           /\ d_input[i].term # d_input[j].term
           /\ Normalized(d_input[i].term) = Normalized(d_input[j].term)
    /\ Len(DedupReturned) = 2

\* C5: _deduplicate_topics called on the list it returned returns the same
\* set of topics.
C5_Idempotent ==
    (d_pc = "returned" /\ Len(d_results) = 2) =>
        SeqToSet(d_results[2]) = SeqToSet(d_results[1])

\* the first call dropped a topic and kept two; the second call has returned
C5_Witness ==
    /\ d_pc = "returned"
    /\ Len(d_results) = 2
    /\ Len(d_results[1]) = 2
    /\ Len(d_input) = 3

PairwiseDistinctScores(topics) ==
    \A i, j \in 1..Len(topics) : i # j => topics[i].score # topics[j].score

Permuted(topics, perm) == [i \in 1..Len(topics) |-> topics[perm[i]]]

\* C6, as stated: for every list of topics and every permutation of it,
\* _deduplicate_topics returns the same set of topics, equal scores included.
C6_OrderIndependent ==
    (d_pc = "returned" /\ Len(d_results) = 1) =>
        \A perm \in Permutations(1..Len(d_input)) :
            SeqToSet(DeduplicateTopics(Permuted(d_input, perm))) = SeqToSet(d_results[1])

\* C6, amended: for every list of topics with pairwise distinct scores and
\* every permutation of it, _deduplicate_topics returns the same set of
\* topics.
C6_OrderIndependentDistinctScores ==
    (d_pc = "returned" /\ Len(d_results) = 1 /\ PairwiseDistinctScores(d_input)) =>
        \A perm \in Permutations(1..Len(d_input)) :
            SeqToSet(DeduplicateTopics(Permuted(d_input, perm))) = SeqToSet(d_results[1])

\* three topics with distinct scores came in, not in descending order, and
\* a near-duplicate among them was dropped
C6_Witness ==
    /\ d_pc = "returned"
    /\ Len(d_results) = 1
    /\ Len(d_input) = 3
    /\ PairwiseDistinctScores(d_input)
    /\ d_input[1].score < d_input[2].score
    /\ Len(d_results[1]) = 2

SameNormalizedTerm(topics) ==
    \A i, j \in 1..Len(topics) :
        Normalized(topics[i].term) = Normalized(topics[j].term)

MaxScore(topics) ==
    CHOOSE m \in {topics[i].score : i \in 1..Len(topics)} :
        \A i \in 1..Len(topics) : topics[i].score <= m

\* C7: when every topic handed to _deduplicate_topics has the same
\* normalized term, exactly one topic is returned and its score is the
\* maximum score of the input.
C7_OneSurvivorWithMaxScore ==
    (d_pc = "returned" /\ Len(d_results) = 1 /\ d_input # <<>>
        /\ SameNormalizedTerm(d_input)) =>
        /\ Len(d_results[1]) = 1
        /\ d_results[1][1].score = MaxScore(d_input)

\* three spellings of one term came in, the highest score not first
C7_Witness ==
    /\ d_pc = "returned"
    /\ Len(d_results) = 1
    /\ Len(d_input) = 3
    /\ SameNormalizedTerm(d_input)
    /\ \A i, j \in 1..3 : i # j => d_input[i].term # d_input[j].term
    /\ d_input[1].score < MaxScore(d_input)
    /\ Len(d_results[1]) = 1

----------------------------------------------------------------------------
(* Properties of run() and _process_category *)

\* the term at a (category, term) position of the seeds file
TermAt(p) == seeds_data[p[1]].terms[p[2]]

\* the Topic of lines 557-573 for the term at a position
TopicAt(p) ==
    NewTopic(p[1], TermAt(p), source[TermAt(p)], CalculateScore(source[TermAt(p)]),
             RelatedQueries)

\* two terms _deduplicate_topics treats as one: the same normalized key
\* (line 369) or a similarity above the threshold (line 395)
NearDuplicateTerms(term1, term2) ==
    \/ Normalized(term1) = Normalized(term2)
    \/ IsFuzzyDuplicate(term1, term2)

\* the term with the higher final score of the batch of the two Topics, or
\* both terms when the scores are equal
HigherScoringTerms(p, q) ==
    LET scored == CalculateFinalScores(<<TopicAt(p), TopicAt(q)>>)
    IN  {scored[i].term : i \in {k \in 1..2 : \A j \in 1..2 :
                                     scored[k].score >= scored[j].score}}

\* C4: in run(), when the two terms that passed the quality filter are
\* near-duplicates of each other, the topic all_topics holds once
\* deduplication has run is the one with the higher final score.
C4_HighestScoringVariantSurvives ==
    r_pc = "score" =>
        \A p, q \in passed_filter :
            (p # q /\ passed_filter = {p, q}
                /\ NearDuplicateTerms(TermAt(p), TermAt(q))) =>
                /\ Len(all_topics) = 1
                /\ all_topics[1].term \in HigherScoringTerms(p, q)

\* two near-duplicate terms with different sparklines passed the filter and
\* deduplication has run
C4_Witness ==
    /\ r_pc = "score"
    /\ \E p, q \in passed_filter :
           /\ p # q
           /\ passed_filter = {p, q}
           /\ NearDuplicateTerms(TermAt(p), TermAt(q))
           /\ Cardinality(HigherScoringTerms(p, q)) = 1

\* one category with the terms A, B, C: A answers the 12 rising samples,
\* B 12 flat samples, C 12 samples more than 70% of them zero
ScenarioABC ==
    /\ seeds_data = <<[has_terms |-> TRUE,
                       terms |-> <<T_ChatGPT, T_ChatHyphenGPT, T_AI>>]>>
    /\ source[T_ChatGPT] = SparkRising
    /\ source[T_ChatHyphenGPT] = SparkFlat
    /\ source[T_AI] = SparkSparse

\* C8: in the scenario of the terms A, B, C, only A passes the quality
\* filter and the list run() saves holds exactly the one Topic of A.
C8_SavesExactlyTopicA ==
    (ScenarioABC /\ r_pc = "done" /\ run_result = "True") =>
        /\ passed_filter = {<<1, 1>>}
        /\ Len(saved) = 1
        /\ Len(saved[1]) = 1
        /\ saved[1][1].term = T_ChatGPT

\* the scenario has run to its end and run() has saved a list
C8_Witness ==
    /\ ScenarioABC
    /\ r_pc = "done"
    /\ run_result = "True"
    /\ passed_filter = {<<1, 1>>}
    /\ Len(saved) = 1

\* C9: every term that passed the quality filter has a Topic created for
\* it, whose volume is the integer median of the last 8 samples of the
\* term's own sparkline.
C9_TopicCreatedWithMedianVolume ==
    \A p \in passed_filter :
        \E c \in created :
            /\ c.pos = p
            /\ c.topic.term = TermAt(p)
            /\ c.topic.volume = MedianVolume(source[TermAt(p)])

\* a term passed the quality filter and its category ended in the handler
\* of line 871
C9_Witness ==
    /\ passed_filter # {}
    /\ r_pc = "categories"
    /\ \E i \in 1..Len(errors) : errors[i] = "CATEGORY_PROCESSING_ERROR"

\* C10: when run() has ended, the loop of line 858 has taken up every
\* category of the seeds file, whatever category failed before.
C10_EveryCategoryTakenUp ==
    r_pc = "done" => processed = 1..Len(seeds_data)

\* the first category of two has no 'terms' key and run() has ended
C10_Witness ==
    /\ Len(seeds_data) = 2
    /\ ~seeds_data[1].has_terms
    /\ seeds_data[2].has_terms
    /\ r_pc = "done"
    /\ run_result = "False"
    /\ saved = <<>>

\* main(), lines 992-996: the exit code of the process once run() returned
ExitCode == IF run_result = "True" THEN 0 ELSE 1

\* an error of the given type has been logged
Logged(error_type) == \E i \in 1..Len(errors) : errors[i] = error_type

\* C11: when run() has ended, _save_data has been called, and the result is
\* False (exit code 1) only when the save itself failed.
C11_FailsOnlyWhenSaveFails ==
    r_pc = "done" =>
        /\ \E i \in 1..Len(stages) : stages[i] = "save"
        /\ (ExitCode = 1 => Logged("SAVE_ERROR"))

\* run() has ended with exit code 1 and _save_data was never called
C11_Witness ==
    /\ r_pc = "done"
    /\ ExitCode = 1
    /\ ~Logged("SAVE_ERROR")
    /\ stages = <<>>
    /\ \E c \in 1..Len(seeds_data) : ~seeds_data[c].has_terms

\* C12: once the loop of line 858 is past a category that has its 'terms',
\* the loop of line 538 has taken up every term of that category, whatever
\* happened to the terms before it.
C12_EveryTermTakenUp ==
    \A c \in 1..Len(seeds_data) :
        (c < cat_idx /\ seeds_data[c].has_terms) =>
            \A t \in 1..Len(seeds_data[c].terms) : <<c, t>> \in terms_taken

\* the first term of a category of two terms passed the quality filter, the
\* category is over and its second term was never taken up
C12_Witness ==
    /\ cat_idx > 1
    /\ seeds_data[1].has_terms
    /\ Len(seeds_data[1].terms) = 2
    /\ <<1, 1>> \in passed_filter
    /\ <<1, 2>> \notin terms_taken
    /\ Logged("CATEGORY_PROCESSING_ERROR")

\* the stages of run() after the loop of line 858, in the order of the code
StageOrder == <<"dedup", "score", "sort", "filter", "save">>

IsPrefix(s, t) == Len(s) <= Len(t) /\ s = SubSeq(t, 1, Len(s))

\* C18: in run(), a stage starts only when the loop of line 858 is exhausted
\* and every category has been taken up; once a stage has run no term and no
\* category is taken up any more; and the stages run in the order
\* deduplication, final scoring, sort, final filter, save.
C18_StagesAfterIntakeInOrder ==
    [][/\ IsPrefix(stages', StageOrder)
       /\ (stages' # stages =>
              /\ cat_idx > Len(seeds_data)
              /\ processed = 1..Len(seeds_data))
       /\ (stages # <<>> =>
              /\ terms_taken' = terms_taken
              /\ processed' = processed
              /\ passed_filter' = passed_filter)]_vars

\* two categories: a term of the first was skipped, a term of the second
\* failed, and the five stages have run
C18_Witness ==
    /\ r_pc = "done"
    /\ stages = StageOrder
    /\ Len(seeds_data) = 2
    /\ <<1, 1>> \in terms_taken
    /\ <<1, 1>> \notin passed_filter
    /\ <<2, 1>> \in passed_filter
    /\ Logged("CATEGORY_PROCESSING_ERROR")

\* C27: in the list _deduplicate_topics returns, no two topics at distinct
\* positions are fuzzy duplicates: the greatest of the four similarities of
\* their normalized terms, taken in either order, does not exceed the
\* threshold of the pair.
C27_NoFuzzyDuplicatesInOutput ==
    d_pc = "returned" =>
        \A i, j \in 1..Len(DedupReturned) :
            i # j => ~IsFuzzyDuplicate(DedupReturned[i].term, DedupReturned[j].term)

\* three terms with three normalized keys came in, two of them fuzzy
\* duplicates of one another, and two topics came out
C27_Witness ==
    /\ d_pc = "returned"
    /\ Len(d_results) = 1
    /\ Len(d_input) = 3
    /\ Cardinality({Normalized(d_input[i].term) : i \in 1..3}) = 3
    /\ \E i, j \in 1..3 :
           i # j /\ IsFuzzyDuplicate(d_input[i].term, d_input[j].term)
    /\ Len(DedupReturned) = 2

\* how many times a topic occurs in a list
Occurrences(topics, topic) == Cardinality({i \in 1..Len(topics) : topics[i] = topic})

\* an output topic that stands for a topic: its score is not lower and its
\* normalized term is the same or a fuzzy duplicate
Represents(kept, topic) ==
    /\ kept.score >= topic.score
    /\ \/ Normalized(kept.term) = Normalized(topic.term)
       \/ IsFuzzyDuplicate(topic.term, kept.term)

\* C28: every topic that _deduplicate_topics was handed and did not return
\* has a representative in the returned list, and every returned topic is
\* one of the topics handed in, unmodified.
C28_DroppedTopicsRepresented ==
    d_pc = "returned" =>
        /\ \A i \in 1..Len(d_topics) :
               Occurrences(DedupReturned, d_topics[i]) < Occurrences(d_topics, d_topics[i])
                   => \E j \in 1..Len(DedupReturned) :
                          Represents(DedupReturned[j], d_topics[i])
        /\ \A j \in 1..Len(DedupReturned) :
               /\ Occurrences(d_topics, DedupReturned[j]) >= 1
               /\ Occurrences(DedupReturned, DedupReturned[j])
                      <= Occurrences(d_topics, DedupReturned[j])

\* the lower-scoring of two fuzzy duplicates with different normalized
\* terms came first and was dropped; the other was returned
C28_Witness ==
    /\ d_pc = "returned"
    /\ Len(d_results) = 1
    /\ Len(d_input) = 2
    /\ Normalized(d_input[1].term) # Normalized(d_input[2].term)
    /\ IsFuzzyDuplicate(d_input[1].term, d_input[2].term)
    /\ d_input[1].score < d_input[2].score
    /\ DedupReturned = <<d_input[2]>>

\* the kept list is in descending order of score
SortedByScoreDesc(topics) ==
    \A i, j \in 1..Len(topics) : i < j => topics[i].score >= topics[j].score

\* C26: while _deduplicate_topics runs, the replace branch of lines 403-407
\* is never taken, the kept list is sorted by score descending, the recorded
\* normalized terms are exactly those of the kept topics, and an iteration
\* of the loop leaves the kept list as it was or with one topic appended.
C26_KeptTopicsStay ==
    /\ [](d_pc \in {"loop", "returned"} =>
            /\ ~d_replaced
            /\ SortedByScoreDesc(unique_topics)
            /\ seen_terms = {Normalized(unique_topics[i].term) :
                                i \in 1..Len(unique_topics)})
    /\ [][d_pc = "loop" => IsPrefix(unique_topics, unique_topics')]_vars

\* three topics went through the loop: one was kept, one was dropped as a
\* fuzzy duplicate of it, one was kept after it
C26_Witness ==
    /\ d_pc = "loop"
    /\ d_idx = 4
    /\ Len(unique_topics) = 2
    /\ Cardinality({Normalized(topics_sorted[i].term) : i \in 1..3}) = 3
    /\ unique_topics[1].score > unique_topics[2].score

----------------------------------------------------------------------------
(* Properties of _passes_quality_filters *)

QualityReturned ==
    call_fn = "_passes_quality_filters" /\ call_pc = "returned"

\* the seven conditions on the arguments a of _passes_quality_filters
SevenConditions(a) ==
    LET n == Len(a.sparkline)
    IN  /\ n >= 8
        /\ MedianTimes2(LastK(a.sparkline, 8)) >= 2 * a.min_volume
        /\ a.volatility2.n <= 2500 * a.volatility2.d
        /\ \E i \in (n - 3)..n : a.sparkline[i] # 0
        /\ 10 * Cardinality({i \in 1..n : a.sparkline[i] = 0}) <= 7 * n
        /\ ~(/\ 10 * Abs(a.slope84) < 84
             /\ Abs(a.percent_change.n) < 5 * a.percent_change.d)
        /\ ~(SumSeq(SubSeq(a.sparkline, n - 3, n)) * (n - 4)
                 > 40 * SumSeq(SubSeq(a.sparkline, 1, n - 4)))

\* C14: _passes_quality_filters returns True exactly when the seven
\* conditions hold together: median of the last 8 samples >= the minimum
\* volume, at least 8 samples, volatility <= 50, the last 4 samples not all
\* zero, at most 70% zeros, not both a weak slope and a weak percent change,
\* and no mean of the last 4 above 10 times the mean of the others.
C14_TrueExactlyWhenSevenConditions ==
    QualityReturned => (call_result <=> SevenConditions(call_args))

\* accepted with a weak slope and a strong percent change
C14_Witness ==
    /\ QualityReturned
    /\ call_result = TRUE
    /\ 10 * Abs(call_args.slope84) < 84
    /\ call_args.percent_change = Sim(30, 1)

AllZero(sparkline) == \A i \in 1..Len(sparkline) : sparkline[i] = 0

\* C15: _passes_quality_filters returns False for every sparkline whose
\* samples are all zero, whatever its length, the slope, the percent
\* change, the volatility and the minimum volume (zero and negative
\* included).
C15_AllZeroRejected ==
    (QualityReturned /\ AllZero(call_args.sparkline)) => call_result = FALSE

\* 12 zeros, a strong slope and percent change, no volatility and a
\* negative minimum volume: rejected at the fourth check
C15_Witness ==
    /\ QualityReturned
    /\ call_args.sparkline = Zeros(12)
    /\ call_args.min_volume < 0
    /\ call_args.slope84 = 420
    /\ call_args.percent_change = Sim(30, 1)
    /\ call_args.volatility2 = Sim(0, 1)
    /\ call_result = FALSE

\* samples that are all non-negative, more than 4 of them, with nothing but
\* zeros before the last four
FirstSeenInLastFour(sparkline) ==
    /\ Len(sparkline) > 4
    /\ \A i \in 1..Len(sparkline) : sparkline[i] >= 0
    /\ \A i \in 1..(Len(sparkline) - 4) : sparkline[i] = 0

\* C30: _passes_quality_filters returns False for every sparkline of more
\* than 4 non-negative samples whose samples before the last four are all
\* zero, whatever the other arguments are; such a sparkline meets the
\* condition of the recent-activity check or of the spike check.
C30_FirstSeenInLastFourRejected ==
    (QualityReturned /\ FirstSeenInLastFour(call_args.sparkline)) =>
        /\ call_result = FALSE
        /\ \/ QualityCheckRejects(4, call_args.sparkline, call_args.slope84,
                                  call_args.percent_change, call_args.volatility2,
                                  call_args.min_volume)
           \/ QualityCheckRejects(7, call_args.sparkline, call_args.slope84,
                                  call_args.percent_change, call_args.volatility2,
                                  call_args.min_volume)

\* 8 weeks of zeros and then 50, 60, 70, 80 passed the first six checks
\* and was rejected by the seventh
C30_Witness ==
    /\ QualityReturned
    /\ call_args.sparkline = <<0, 0, 0, 0, 0, 0, 0, 0, 50, 60, 70, 80>>
    /\ call_step = 7
    /\ call_result = FALSE

----------------------------------------------------------------------------
(* Properties of _calculate_similarity_threshold *)

ThresholdReturned ==
    call_fn = "_calculate_similarity_threshold" /\ call_pc = "returned"

ShortTerm(term) == Len(term) <= 3

HasDigit(term) ==
    \E i \in 1..Len(term) :
        term[i] \in {"0", "1", "2", "3", "4", "5", "6", "7", "8", "9"}

LongTerm(term) == Len(term) > 20

\* C16: _calculate_similarity_threshold returns 75 if either term has at
\* most 3 characters; otherwise 80 if either term has a digit; otherwise 90
\* if either term has more than 20 characters; otherwise 85; and it returns
\* the same for the two terms swapped.
C16_FirstMatchingRuleWins ==
    ThresholdReturned =>
        LET t1 == call_args.term1
            t2 == call_args.term2
            short == ShortTerm(t1) \/ ShortTerm(t2)
            digit == HasDigit(t1) \/ HasDigit(t2)
            long == LongTerm(t1) \/ LongTerm(t2)
        IN  /\ short => call_result = 75
            /\ (~short /\ digit) => call_result = 80
            /\ (~short /\ ~digit /\ long) => call_result = 90
            /\ (~short /\ ~digit /\ ~long) => call_result = 85
            /\ call_result = CalculateSimilarityThreshold(t2, t1)

\* a term of 2 characters with a term of more than 20 characters that has
\* a digit: 75
C16_Witness ==
    /\ ThresholdReturned
    /\ call_args.term1 = TT_AI
    /\ call_args.term2 = TT_LongDigit
    /\ call_result = 75

----------------------------------------------------------------------------
(* Properties of _normalize_score *)

NormalizeReturned == call_fn = "_normalize_score" /\ call_pc = "returned"

AllEqual(values) == \A i, j \in 1..Len(values) : values[i] = values[j]

AllFloatZero(values) == \A i \in 1..Len(values) : values[i] = FloatZero

\* C19: _normalize_score returns as many values as it was given, and all of
\* them are zero when it was given fewer than 2 values or values that are
\* all equal.
C19_SameLengthAndZerosWhenEqual ==
    NormalizeReturned =>
        /\ Len(call_result) = Len(call_args)
        /\ (Len(call_args) < 2 \/ AllEqual(call_args)) => AllFloatZero(call_result)

\* three times the same value (0.1 is one): the mean is not that value, the
\* standard deviation is not zero, and the values returned are not zero
C19_Witness ==
    /\ NormalizeReturned
    /\ Len(call_args) = 3
    /\ AllEqual(call_args)
    /\ FloatMean(call_args) # call_args[1]
    /\ FloatStd(call_args) # FloatZero
    /\ ~AllFloatZero(call_result)

----------------------------------------------------------------------------
(* Properties of _calculate_score *)

ScoreReturned == call_fn = "_calculate_score" /\ call_pc = "returned"

\* the sum of the samples at positions -8..-5
PriorFourSum(sparkline) ==
    SumSeq(SubSeq(sparkline, Len(sparkline) - 7, Len(sparkline) - 4))

\* C20: called on a list of integers, _calculate_score returns three
\* numbers; they are (0, 0, 0) when the list has fewer than 8 samples, and
\* the percent change is 0 when the mean of the samples at positions -8..-5
\* is zero or negative.
C20_ReturnsNumbersAndZeroCases ==
    ScoreReturned =>
        /\ call_result.slope84 \in Int
        /\ call_result.percent_change.n \in Int
        /\ call_result.percent_change.d > 0
        /\ call_result.volatility2.n >= 0
        /\ call_result.volatility2.d > 0
        /\ Len(call_args) < 8 =>
               /\ call_result.slope84 = 0
               /\ call_result.percent_change.n = 0
               /\ call_result.volatility2.n = 0
        /\ (Len(call_args) >= 8 /\ PriorFourSum(call_args) <= 0) =>
               call_result.percent_change.n = 0

\* 9 samples whose prior four have a negative mean and whose last four have
\* a positive one: the percent change is 0, the slope is not
C20_Witness ==
    /\ ScoreReturned
    /\ Len(call_args) = 9
    /\ PriorFourSum(call_args) < 0
    /\ SumSeq(LastK(call_args, 4)) > 0
    /\ call_result.percent_change.n = 0
    /\ call_result.slope84 > 0

----------------------------------------------------------------------------
(* Properties of _save_data and _cleanup_archives *)

JustSaved == s_pc = "saved"

\* the archive the last call of _save_data wrote, if it is still there
LastArchives == {f \in archive_dir : f.name = archives_written[Len(archives_written)]}

\* the payloads the last call of _save_data left on disk
LastPayloads == {latest_file} \cup {f.content : f \in LastArchives}

\* C21: after _save_data, no topic of the payload in latest.json and in the
\* archive has a 'debug' key, and each has every other key of the topic
\* handed in, with the value handed in for every key but 'sparkline'.
C21_NoDebugOtherFieldsUnchanged ==
    JustSaved =>
        \A payload \in LastPayloads :
            /\ Len(payload.topics) = Len(s_before)
            /\ \A i \in 1..Len(s_before) :
                   /\ DOMAIN payload.topics[i] = (DOMAIN s_before[i]) \ {"debug"}
                   /\ \A k \in (DOMAIN payload.topics[i]) \ {"sparkline"} :
                          payload.topics[i][k] = s_before[i][k]

\* a list of two topics was saved, one of them with a 'debug' key, and the
\* archive is on disk
C21_Witness ==
    /\ JustSaved
    /\ Len(s_before) = 2
    /\ \E i \in 1..2 : "debug" \in DOMAIN s_before[i]
    /\ \E i \in 1..2 : "debug" \notin DOMAIN s_before[i]
    /\ LastArchives # {}

\* C22: after _save_data, every sparkline of the payload has at most 24
\* samples and is the last min(24, n) samples, in their order, of the n
\* samples handed in; a sparkline of 24 samples or fewer is written as it
\* was handed in.
C22_LastSamplesKept ==
    JustSaved =>
        \A payload \in LastPayloads :
            \A i \in 1..Len(payload.topics) :
                LET sparkline == s_before[i].sparkline
                    n == Len(sparkline)
                    out == payload.topics[i].sparkline
                IN  /\ Len(out) <= 24
                    /\ Len(out) = Min2(24, n)
                    /\ \A j \in 1..Len(out) : out[j] = sparkline[n - Len(out) + j]
                    /\ n <= 24 => out = sparkline

\* a sparkline of 52 samples and one of 8 samples were saved
C22_Witness ==
    /\ JustSaved
    /\ Len(s_before) = 2
    /\ Len(s_before[1].sparkline) = 52
    /\ Len(s_before[2].sparkline) = 8
    /\ Len(latest_file.topics[1].sparkline) = 24
    /\ latest_file.topics[1].sparkline[1] = 29
    /\ latest_file.topics[2].sparkline = s_before[2].sparkline

\* C23: after _cleanup_archives has run on a directory that holds one dated
\* archive per calendar day, at most 7 archives remain.
C23_AtMostSevenArchivesRemain ==
    (s_pc = "cleaned" /\ archives_written = <<>>) =>
        Cardinality(archive_dir) <= 7

\* the archives of today and of each of the 7 days before it remain
C23_Witness ==
    /\ s_pc = "cleaned"
    /\ archives_written = <<>>
    /\ today = FirstDay
    /\ {f.name : f \in archive_dir} = {<<today - i>> : i \in 0..7}

\* the archives of a day in a directory
ArchivesOfDay(dir, day) == {f \in dir : f.name[1] = day}

\* C24: a call of _save_data leaves every archive that existed before it
\* and is still there with the content it had, and after it the day has
\* more archive files than before.
C24_ArchivesNeverOverwritten ==
    [][archives_written' # archives_written =>
          /\ \A f \in archive_dir :
                 FileExists(archive_dir', f.name) => f \in archive_dir'
          /\ Cardinality(ArchivesOfDay(archive_dir', today))
                 > Cardinality(ArchivesOfDay(archive_dir, today))]_vars

\* two calls of _save_data within one second, on a day that had its
\* archive, wrote the same timestamped file
C24_Witness ==
    /\ JustSaved
    /\ Len(archives_written) = 2
    /\ archives_written[1] = <<today, hms>>
    /\ archives_written[2] = <<today, hms>>
    /\ Cardinality(ArchivesOfDay(archive_dir, today)) = 2

----------------------------------------------------------------------------
(* Properties of _rate_limit *)

\* C25: whenever _rate_limit returns, at least min_delay seconds have passed
\* since the request time recorded before it, so two signal-source calls
\* that follow one another, of either kind, are at least min_delay apart;
\* and last_request_time never decreases.
C25_MinDelayBetweenRequests ==
    /\ \A i \in 1..Len(returns) :
           /\ returns[i].recorded - returns[i].before >= min_delay
           /\ returns[i].recorded >= returns[i].before
    /\ \A i \in 1..(Len(returns) - 1) :
           /\ returns[i + 1].before = returns[i].recorded
           /\ returns[i + 1].recorded - returns[i].recorded >= min_delay
    /\ last_request_time =
           IF returns = <<>> THEN 0 ELSE returns[Len(returns)].recorded

\* a related-queries call 5 seconds after an interest-over-time call slept
\* and recorded its request exactly min_delay after the one before
C25_Witness ==
    /\ Len(returns) = 2
    /\ returns[1].caller = "_get_interest_over_time"
    /\ returns[2].caller = "_get_related_queries"
    /\ sleep_time = 7
    /\ returns[2].recorded = returns[1].recorded + min_delay

----------------------------------------------------------------------------
(* Properties of _calculate_final_scores followed by the final filter *)

RescoreReturned == call_fn = "_calculate_final_scores" /\ call_pc = "returned"

\* C29: for a batch that is not empty, the final filter applied to the
\* rescored batch returns fewer topics than the batch has; and a batch of
\* one topic, or of topics with identical components, gets score 0 for
\* every topic and is filtered to the empty list.
C29_RescoredBatchLosesATopic ==
    RescoreReturned =>
        /\ Len(call_result.finalized) < Len(call_args)
        /\ AllEqual(call_args) =>
               /\ AllFloatZero(call_result.scores)
               /\ call_result.finalized = <<>>

\* three topics with identical components: each gets a positive score and
\* the final filter keeps all three
C29_Witness ==
    /\ RescoreReturned
    /\ Len(call_args) = 3
    /\ AllEqual(call_args)
    /\ \A i \in 1..3 : ScoreUnits(call_result.scores[i]) > 0
    /\ Len(call_result.finalized) = 3

====
